---- MODULE Spec2Model ----
(***************************************************************************)
(* Credential and token lifecycle of the FastAPI/SQLite authentication     *)
(* starter: users, password-reset tokens, CSRF double submit, session      *)
(* tokens.                                                                 *)
(*                                                                         *)
(* Time is counted in units of 30 minutes, the largest unit in which the   *)
(* three lifetimes of the program are whole numbers (default session 30    *)
(* minutes, reset token 1 hour, remember-me 30 days).                      *)
(*                                                                         *)
(* The store is the SQLite database shared by every server process; a      *)
(* request handler is a sequence of SQL statements against it, and the     *)
(* handlers of different requests are scheduled independently.             *)
(***************************************************************************)
EXTENDS Integers, Sequences, FiniteSets, TLC

VARIABLES
    users,          \* table "user": row id = index
    reset_tokens,   \* table "passwordresettoken": row id = index
    now,            \* the clock (datetime.now)
    email_on,       \* settings.resend_api_key is set (get_email_client() is not None)
    outbox,         \* background tasks queued for the notifier
    log,            \* what the application log holds of reset-token material
    req,            \* the POST /auth/reset requests of the run, one slot each
    request,        \* the request resp answers: the handler and the session
                    \* credentials (token, or email and password) it presented
    resp,           \* the response of the last handler that ran to completion
    hits,           \* the rate limiter's storage: a counter per endpoint and key
    pending,        \* the account-writing requests in flight, one slot each:
                    \* what the handler read and where it stands
    issued,         \* history: the tokens the API login has given out, each
                    \* with the user record that logged in
    browser         \* the client's side of the CSRF double submit: the
                    \* csrftoken cookie it stores, when it was set, and the
                    \* csrf values of the forms it has been served

vars == <<users, reset_tokens, now, email_on, outbox, log, req, request, resp, hits,
         pending, issued, browser>>

----------------------------------------------------------------------------
(* Bounds *)

MaxTime == 2
MaxTokens == 1

(* Program constants, in units of 30 minutes *)
RESET_TOKEN_EXPIRE == 2
ACCESS_TOKEN_EXPIRE == 1
REMEMBER_ME_EXPIRE == 1440

(* Input domains *)
Emails == {"a@x", "b@x"}
NewEmails == {"n@x"}                    \* not registered in the initial state
Passwords == {"pw1", "pw2"}
Salts == {1, 2}
CsrfValues == {"", "c1", "c2"}          \* "" is an absent cookie / empty field
\* cookie and form value of a submission: matching, differing, one absent
CsrfPairs == {<<"c1", "c1">>, <<"c1", "c2">>, <<"", "c1">>, <<"c1", "">>}
\* secrets.token_urlsafe(32): 43 characters, seen as head(4) / middle / tail(4)
RawSecrets == {<<"h1", "m1", "t1">>, <<"h2", "m2", "t2">>, <<"h3", "m3", "t3">>}
\* another token string a client may submit, of at most 8 characters
GarbageTokens == {<<"g", "", "">>}
ReqIds == {"r1", "r2"}

NULL == <<>>
Some(v) == <<v>>

----------------------------------------------------------------------------
(* Pure functions *)

\* passlib bcrypt: the digest is tagged, salted and depends on the plaintext
get_password_hash(password, salt) ==
    [alg |-> "bcrypt", salt |-> salt, digest |-> <<salt, password>>]

verify_password(plain_password, hashed_password) ==
    hashed_password = get_password_hash(plain_password, hashed_password.salt)

sha256_hex(s) == <<"sha256", s>>

mask_sensitive_data(value) ==
    IF value[2] = "" THEN <<"***">> ELSE <<value[1], "...", value[3]>>

verify_csrf_AllowsNoCookie(cookie_token, form_token) ==
    cookie_token = "" \/ (form_token # "" /\ cookie_token = form_token)

verify_csrf_PresenceOnly(cookie_token, form_token) ==
    ~(cookie_token = "" \/ form_token = "")

verify_csrf(cookie_token, form_token) ==
    ~(cookie_token = "" \/ form_token = "" \/ cookie_token # form_token)

\* select(User).where(User.email == email).first(); 0 stands for None
UserByEmail(us, email) ==
    IF \E i \in 1..Len(us) : us[i].email = email
    THEN CHOOSE i \in 1..Len(us) :
            /\ us[i].email = email
            /\ \A j \in 1..Len(us) : us[j].email = email => i <= j
    ELSE 0

authenticate_user_AnyPassword(us, email, password) ==
    LET u == UserByEmail(us, email) IN
    IF u = 0 THEN 0
    ELSE IF ~us[u].is_active THEN 0
    ELSE u

authenticate_user_IgnoreActive(us, email, password) ==
    LET u == UserByEmail(us, email) IN
    IF u = 0 THEN 0
    ELSE IF ~verify_password(password, us[u].hashed_password) THEN 0
    ELSE u

authenticate_user(us, email, password) ==
    LET u == UserByEmail(us, email) IN
    IF u = 0 THEN 0
    ELSE IF ~verify_password(password, us[u].hashed_password) THEN 0
    ELSE IF ~us[u].is_active THEN 0
    ELSE u

FindResetToken_IgnoreUsed(toks, token, t) ==
    LET match(i) == /\ toks[i].token_hash = sha256_hex(token)
                    /\ toks[i].expires_at > t
    IN IF \E i \in 1..Len(toks) : match(i)
       THEN CHOOSE i \in 1..Len(toks) :
                match(i) /\ \A j \in 1..Len(toks) : match(j) => i <= j
       ELSE 0

FindResetToken_ExpiryInclusive(toks, token, t) ==
    LET match(i) == /\ toks[i].token_hash = sha256_hex(token)
                    /\ toks[i].used_at = NULL
                    /\ toks[i].expires_at >= t
    IN IF \E i \in 1..Len(toks) : match(i)
       THEN CHOOSE i \in 1..Len(toks) :
                match(i) /\ \A j \in 1..Len(toks) : match(j) => i <= j
       ELSE 0

\* the reset-token query of reset_password_page and handle_reset_password
FindResetToken(toks, token, t) ==
    LET match(i) == /\ toks[i].token_hash = sha256_hex(token)
                    /\ toks[i].used_at = NULL
                    /\ toks[i].expires_at > t
    IN IF \E i \in 1..Len(toks) : match(i)
       THEN CHOOSE i \in 1..Len(toks) :
                match(i) /\ \A j \in 1..Len(toks) : match(j) => i <= j
       ELSE 0

----------------------------------------------------------------------------
(* Responses: status, body (the error text, or the redirect header), and *)
(* the access-token cookie the response sets, if any                     *)

NoCookie == <<>>
NoToken == [sub |-> "", exp |-> 0, sig |-> <<>>]     \* no token / empty string
Response(status, body) ==
    [status |-> status, body |-> body, set_cookie |-> NoCookie, access_token |-> NoToken]

CsrfFailed == Response(403, <<"detail", "CSRF verification failed">>)
\* a required form field is absent (csrf: str = Form(...)): the handler is not entered
ValidationFailed == Response(422, <<"detail", "Field required">>)
ForgotSuccess == Response(200, <<"fragments/forgot_success.html",
    "If an account exists with that email, you will receive a password reset link.">>)
ResetInvalid == Response(200, <<"fragments/reset_error.html", "Invalid or expired token">>)
ResetUserNotFound == Response(200, <<"fragments/reset_error.html", "User not found">>)
hx_redirect(url, hx) ==
    IF hx THEN Response(204, <<"HX-Redirect", url>>)
    ELSE Response(303, <<"Location", url>>)
NoResponse == Response(0, <<>>)

----------------------------------------------------------------------------
(* Initial state: two registered users, no reset token issued yet *)

\* a client that has not been served a form page yet
NoCsrfCookie == [csrftoken |-> "", set_at |-> 0, forms |-> {}]

IdleReq == [pc |-> "idle", token |-> <<"", "", "">>, new_password |-> "",
            row |-> 0, resp |-> NoResponse]

\* the rate-limited endpoints that are followed, and the client keys
\* (get_client_ip) requests arrive from
Endpoints == {"/auth/token", "/auth/signup"}
\* the form endpoints behind the limiter, and every limited endpoint
FormEndpoints == {"/auth/login", "/auth/signup", "/auth/forgot"}
AllEndpoints == Endpoints \cup FormEndpoints
ClientKeys == {"10.0.0.1", "10.0.0.2"}
\* every key get_client_ip can give the requests followed
AllKeys == ClientKeys \cup {"unknown"}
NoHits == [count |-> 0, at |-> 0]
\* row: the User object the handler's session holds for the commit, if any;
\* user: the id of the row it updates (0: a new row)
IdleWrite == [pc |-> "idle", op |-> "", row |-> <<>>, user |-> 0, resp |-> NoResponse]

Init ==
    /\ \E act \in BOOLEAN :
         users = << [email |-> "a@x",
                     hashed_password |-> get_password_hash("pw1", 1),
                     is_active |-> act, is_superuser |-> FALSE],
                    [email |-> "b@x",
                     hashed_password |-> get_password_hash("pw2", 1),
                     is_active |-> TRUE, is_superuser |-> FALSE] >>
    /\ reset_tokens = <<>>
    /\ now = 0
    /\ email_on \in BOOLEAN
    /\ outbox = {}
    /\ log = {}
    /\ req = [r \in ReqIds |-> IdleReq]
    /\ request = <<>>
    /\ resp = NoResponse
    /\ hits = [e \in AllEndpoints, k \in AllKeys |-> NoHits]
    /\ pending = [r \in ReqIds |-> IdleWrite]
    /\ issued = {}
    /\ browser = NoCsrfCookie

----------------------------------------------------------------------------
(* The clock *)

\* One unit of time passes.  The unit is longer than the rate limiter's
\* window of one minute, so the limiter's storage has let every counter
\* expire.
Tick ==
    /\ now < MaxTime
    /\ now' = now + 1
    /\ hits' = [e \in AllEndpoints, k \in AllKeys |-> NoHits]
    /\ UNCHANGED <<users, reset_tokens, email_on, outbox, log, req, request, resp, pending, issued, browser>>

----------------------------------------------------------------------------
(* POST /auth/forgot *)

\* secrets.token_urlsafe(32): 256 random bits, so a value never drawn before;
\* the secrets are interchangeable, the n-th draw yields the n-th of them
SecretOrder == << <<"h1", "m1", "t1">>, <<"h2", "m2", "t2">>, <<"h3", "m3", "t3">>,
                 <<"h4", "m4", "t4">> >>
FreshSecrets == {SecretOrder[Len(reset_tokens) + 1]}

\* the response of the handler once the CSRF check has passed; user is the
\* row the email resolved to, 0 for none
ForgotResponse_Reveal(user) ==
    IF user = 0 THEN Response(404, <<"fragments/auth_error.html", "No account with that email">>)
    ELSE ForgotSuccess

ForgotResponse(user) == ForgotSuccess

NewResetToken_HashOfAnother(user, raw_token, t) ==
    [user_id |-> user,
     token_hash |-> sha256_hex(<<"h0", "m0", "t0">>),
     expires_at |-> t + RESET_TOKEN_EXPIRE,
     used_at |-> NULL]

\* PasswordResetToken(user_id=user.id, token_hash=sha256_hex(raw_token),
\*                    expires_at=now + timedelta(hours=1))
NewResetToken(user, raw_token, t) ==
    [user_id |-> user,
     token_hash |-> sha256_hex(raw_token),
     expires_at |-> t + RESET_TOKEN_EXPIRE,
     used_at |-> NULL]

handle_forgot_password(email, cookie_token, form_token) ==
    /\ IF form_token = ""
       THEN /\ resp' = ValidationFailed
            /\ UNCHANGED <<users, reset_tokens, outbox, log>>
       ELSE IF ~verify_csrf(cookie_token, form_token)
       THEN /\ resp' = CsrfFailed
            /\ UNCHANGED <<users, reset_tokens, outbox, log>>
       ELSE LET user == UserByEmail(users, email) IN
            /\ IF user # 0
               THEN \E raw_token \in FreshSecrets :
                      /\ reset_tokens' = Append(reset_tokens,
                                                NewResetToken(user, raw_token, now))
                      /\ IF email_on
                         THEN /\ outbox' = outbox \cup
                                    {[email |-> email, token |-> raw_token]}
                              /\ log' = log
                         ELSE /\ log' = log \cup
                                    {[event |-> "Password reset link", data |-> raw_token]}
                              /\ outbox' = outbox
               ELSE UNCHANGED <<reset_tokens, outbox, log>>
            /\ resp' = ForgotResponse(user)
            /\ UNCHANGED users
    /\ request' = <<"handle_forgot_password">>
    /\ UNCHANGED <<now, email_on, req, hits, pending, issued, browser>>

\* the background task: EmailClient.send_password_reset; it logs the
\* recipient only, and a failure of the provider is logged, not propagated
send_password_reset(task) ==
    /\ task \in outbox
    /\ outbox' = outbox \ {task}
    /\ UNCHANGED <<users, reset_tokens, now, email_on, log, req, request, resp, hits, pending, issued, browser>>

----------------------------------------------------------------------------
(* POST /auth/reset: the handler's SQL statements are the token SELECT    *)
(* and, at session.commit(), the two UPDATEs in one transaction.          *)

\* from the entry of the handler to the token lookup (and its early returns)
reset_lookup(r, token, new_password, cookie_token, form_token) ==
    /\ req[r].pc = "idle"
    /\ UNCHANGED <<users, reset_tokens, now, email_on, outbox, request, resp, hits, pending, issued, browser>>
    /\ log' = IF form_token = "" THEN log
              ELSE log \cup {[event |-> "Password reset attempt",
                               data |-> mask_sensitive_data(token)]}
    /\ IF form_token = ""
       THEN req' = [req EXCEPT ![r] = [IdleReq EXCEPT !.pc = "done",
                                          !.token = token, !.resp = ValidationFailed]]
       ELSE IF ~verify_csrf(cookie_token, form_token)
       THEN req' = [req EXCEPT ![r] = [IdleReq EXCEPT !.pc = "done",
                                          !.token = token, !.resp = CsrfFailed]]
       ELSE LET reset_token == FindResetToken(reset_tokens, token, now) IN
            IF reset_token = 0
            THEN req' = [req EXCEPT ![r] = [IdleReq EXCEPT !.pc = "done",
                                          !.token = token, !.resp = ResetInvalid]]
            ELSE req' = [req EXCEPT ![r] = [pc |-> "found", token |-> token,
                                          new_password |-> new_password,
                                          row |-> reset_token,
                                          resp |-> NoResponse]]

CommitReset_Reactivates(us, toks, row, new_hash, t) ==
    [users |-> [us EXCEPT ![toks[row].user_id].hashed_password = new_hash,
                          ![toks[row].user_id].is_active = TRUE],
     reset_tokens |-> [toks EXCEPT ![row].used_at = Some(t)]]

CommitReset_LocksAccount(us, toks, row, new_hash, t) ==
    [users |-> [us EXCEPT ![toks[row].user_id].hashed_password = new_hash,
                          ![toks[row].user_id].is_active = FALSE],
     reset_tokens |-> [toks EXCEPT ![row].used_at = Some(t)]]

CommitReset_AllOfUser(us, toks, row, new_hash, t) ==
    [users |-> [us EXCEPT ![toks[row].user_id].hashed_password = new_hash],
     reset_tokens |-> [i \in 1..Len(toks) |->
                         IF toks[i].user_id = toks[row].user_id
                         THEN [toks[i] EXCEPT !.used_at = Some(t)] ELSE toks[i]]]

CommitReset_TokenOnly(us, toks, row, new_hash, t) ==
    [users |-> us,
     reset_tokens |-> [toks EXCEPT ![row].used_at = Some(t)]]

\* what session.commit() writes for the redemption of token row `row`
CommitReset(us, toks, row, new_hash, t) ==
    [users |-> [us EXCEPT ![toks[row].user_id].hashed_password = new_hash],
     reset_tokens |-> [toks EXCEPT ![row].used_at = Some(t)]]

\* from session.get(User, ...) to the end of the handler; hx is the
\* request's HX-Request header, which only the final redirect looks at
reset_commit(r, hx) ==
    /\ req[r].pc = "found"
    /\ LET row == req[r].row
           uid == reset_tokens[row].user_id
       IN IF uid \notin 1..Len(users)
          THEN /\ req' = [req EXCEPT ![r] = [@ EXCEPT !.pc = "done",
                                   !.new_password = "", !.resp = ResetUserNotFound]]
               /\ UNCHANGED <<users, reset_tokens>>
          ELSE \E salt \in Salts \ {users[uid].hashed_password.salt} :
                 LET st == CommitReset(users, reset_tokens, row,
                              get_password_hash(req[r].new_password, salt), now)
                 IN /\ users' = st.users
                    /\ reset_tokens' = st.reset_tokens
                    /\ req' = [req EXCEPT ![r] = [@ EXCEPT !.pc = "done",
                                   !.new_password = "",
                                   !.resp = hx_redirect("/login", hx)]]
    /\ UNCHANGED <<now, email_on, outbox, log, request, resp, hits, pending, issued, browser>>

----------------------------------------------------------------------------
\* the secrets handed out so far; any other string a client submits is
\* as good as GarbageTokens
IssuedSecrets == {SecretOrder[i] : i \in 1..Len(reset_tokens)}

ResetNext ==
    \/ Tick
    \/ /\ Len(reset_tokens) < MaxTokens
       /\ \E email \in Emails \cup NewEmails, cf \in CsrfPairs :
             handle_forgot_password(email, cf[1], cf[2])
    \/ \E task \in outbox : send_password_reset(task)
    \/ \E r \in ReqIds, token \in IssuedSecrets \cup GarbageTokens,
          pw \in Passwords, cf \in CsrfPairs :
          reset_lookup(r, token, pw, cf[1], cf[2])
    \/ \E r \in ReqIds, hx \in BOOLEAN : reset_commit(r, hx)

Spec == Init /\ [][ResetNext]_vars

----------------------------------------------------------------------------
(* Properties of the reset flow, checked under Spec *)

Redirected(rsp) == rsp.status \in {204, 303}
Succeeded(r) == req[r].pc = "done" /\ Redirected(req[r].resp)
Rejected(r) == req[r].pc = "done" /\ req[r].resp = ResetInvalid
RowOf(toks, token) ==
    {i \in 1..Len(toks) : toks[i].token_hash = sha256_hex(token)}

\* C1: of two POST /auth/reset requests that carry the same secret of a
\* freshly issued token, at most one completes the redemption; the other
\* is rejected.
C1_OneRedemptionPerSecret ==
    \A r1, r2 \in ReqIds :
       (r1 # r2 /\ Succeeded(r1) /\ req[r2].pc = "done"
          /\ req[r2].token = req[r1].token)
       => Rejected(r2)

\* C2: every committed step changes a token's used_at only together with
\* the password hash of the owning user, and changes a password hash only
\* together with setting the used_at of a token of that user.
C2_RedemptionAllOrNothing ==
    [][ /\ \A i \in 1..Len(reset_tokens) :
             reset_tokens'[i].used_at # reset_tokens[i].used_at
             => users'[reset_tokens[i].user_id].hashed_password
                  # users[reset_tokens[i].user_id].hashed_password
        /\ \A u \in 1..Len(users) :
             users'[u].hashed_password # users[u].hashed_password
             => \E i \in 1..Len(reset_tokens) :
                   /\ reset_tokens[i].user_id = u
                   /\ reset_tokens'[i].used_at = Some(now)
      ]_vars

C2_Witness ==
    \E r \in ReqIds :
       /\ Succeeded(r)
       /\ reset_tokens[req[r].row].used_at # NULL
       /\ users[reset_tokens[req[r].row].user_id].hashed_password.salt = 2

\* C3 as stated: after a successful redemption the old password no longer
\* authenticates and the new one does, used_at stays set for ever, and a
\* later POST /auth/reset with the same secret is rejected and leaves the
\* password hash unchanged.
UsedNeverCleared ==
    \A i \in 1..Len(reset_tokens) :
       reset_tokens[i].used_at # NULL => reset_tokens'[i].used_at # NULL

LaterAttemptRejected ==
    \A r \in ReqIds, token \in RawSecrets, pw \in Passwords :
       ( /\ reset_lookup(r, token, pw, "c1", "c1")
         /\ \E i \in RowOf(reset_tokens, token) : reset_tokens[i].used_at # NULL )
       => /\ req'[r].pc = "done"
          /\ req'[r].resp = ResetInvalid
          /\ users' = users

C3_OldOutNewIn ==
    [][ /\ \A r \in ReqIds, hx \in BOOLEAN :
             (reset_commit(r, hx) /\ Redirected(req'[r].resp))
             => LET u == reset_tokens[req[r].row].user_id IN
                /\ authenticate_user(users', users[u].email, req[r].new_password) = u
                /\ \A old \in Passwords :
                      verify_password(old, users[u].hashed_password)
                      => authenticate_user(users', users[u].email, old) = 0
        /\ UsedNeverCleared
        /\ LaterAttemptRejected
      ]_vars

\* C3 as amended: after a successful redemption the new password verifies,
\* and authenticates when the account is active; the old password no longer
\* verifies when it differs from the new one; used_at stays set for ever,
\* and a later POST /auth/reset with the same secret is rejected and leaves
\* the password hash unchanged.
C3_RedeemedTokenIsSpent ==
    [][ /\ \A r \in ReqIds, hx \in BOOLEAN :
             (reset_commit(r, hx) /\ Redirected(req'[r].resp))
             => LET u == reset_tokens[req[r].row].user_id IN
                /\ verify_password(req[r].new_password, users'[u].hashed_password)
                /\ users[u].is_active
                   => authenticate_user(users', users[u].email, req[r].new_password) = u
                /\ \A old \in Passwords \ {req[r].new_password} :
                      /\ ~verify_password(old, users'[u].hashed_password)
                      /\ authenticate_user(users', users[u].email, old) = 0
        /\ UsedNeverCleared
        /\ LaterAttemptRejected
      ]_vars

C3_Witness ==
    \E r1, r2 \in ReqIds :
       /\ Succeeded(r1)
       /\ Rejected(r2)
       /\ req[r2].token = req[r1].token
       /\ \E i \in RowOf(reset_tokens, req[r1].token) :
             /\ reset_tokens[i].expires_at > now
             /\ reset_tokens[i].used_at # NULL
             /\ users[reset_tokens[i].user_id].is_active

\* C4: a POST /auth/reset for a token whose expires_at is at or before the
\* current time is rejected, and leaves the password hashes and the token
\* rows as they were.
C4_ExpiredTokenRejected ==
    [][ \A r \in ReqIds, token \in RawSecrets, pw \in Passwords :
          ( /\ reset_lookup(r, token, pw, "c2", "c2")
            /\ \E i \in RowOf(reset_tokens, token) : reset_tokens[i].expires_at <= now )
          => /\ req'[r].pc = "done"
             /\ req'[r].resp = ResetInvalid
             /\ users' = users
             /\ reset_tokens' = reset_tokens
      ]_vars

C4_Witness ==
    \E r \in ReqIds :
       /\ Rejected(r)
       /\ \E i \in RowOf(reset_tokens, req[r].token) :
             /\ reset_tokens[i].expires_at = now
             /\ reset_tokens[i].used_at = NULL

\* C5: POST /auth/forgot with a valid CSRF pair answers with one and the
\* same response whether or not the email belongs to a user; it appends one
\* token row for the matching user when there is one, and no row otherwise.
C5_ForgotDoesNotReveal ==
    [][ \A email \in Emails \cup NewEmails, c \in CsrfValues \ {""} :
          handle_forgot_password(email, c, c)
          => /\ resp' = ForgotSuccess
             /\ UserByEmail(users, email) = 0 => reset_tokens' = reset_tokens
             /\ UserByEmail(users, email) # 0
                => /\ Len(reset_tokens') = Len(reset_tokens) + 1
                   /\ SubSeq(reset_tokens', 1, Len(reset_tokens)) = reset_tokens
                   /\ reset_tokens'[Len(reset_tokens')].user_id
                         = UserByEmail(users, email)
      ]_vars

C5_Witness ==
    /\ resp = ForgotSuccess
    /\ reset_tokens = <<>>

\* C6: the raw secret of a reset token is neither in the store nor in the
\* application log.
InStore(raw) ==
    \E i \in 1..Len(reset_tokens) : reset_tokens[i].token_hash = raw
InLog(raw) == \E entry \in log : entry.data = raw

C6_SecretNeverStoredOrLogged ==
    \A raw \in IssuedSecrets : ~InStore(raw) /\ ~InLog(raw)

----------------------------------------------------------------------------
(* Session tokens: LoginManager(secret, default_expiry), HS256 *)

SECRET_KEY == "settings.secret_key"
Sign(key, sub, exp) == <<"HS256", key, sub, exp>>

\* The expiry a token carries is cut to whole seconds, while the clock that
\* issues and decodes it is finer. The codec counts instants and lifetimes
\* in halves of the clock unit; the `now` of the handlers and the lifetimes
\* they pass are whole units, for which the cut changes nothing. CodecSpec
\* reads the unit as one second.
Instant(t) == 2 * t

\* timegm(dt.utctimetuple()): the whole units of an instant, which is how
\* jwt.encode writes a datetime exp claim
timegm(instant) == instant \div 2

\* manager.create_access_token(data={"sub": sub}, expires=expires) at an
\* instant; an absent or zero `expires` falls back to default_expiry
create_access_token(sub, expires, instant) ==
    LET expires_in == IF expires # 0 THEN instant + expires
                      ELSE instant + Instant(ACCESS_TOKEN_EXPIRE)
        exp == timegm(expires_in)
    IN [sub |-> sub, exp |-> exp, sig |-> Sign(SECRET_KEY, sub, exp)]

Invalid == [ok |-> FALSE, sub |-> ""]

jwt_decode_ExpiryExclusive(token, key, instant) ==
    IF token.sig # Sign(key, token.sub, token.exp) THEN Invalid
    ELSE IF Instant(token.exp) < instant THEN Invalid
    ELSE [ok |-> TRUE, sub |-> token.sub]

jwt_decode_NoSignature(token, key, instant) ==
    IF Instant(token.exp) <= instant THEN Invalid
    ELSE [ok |-> TRUE, sub |-> token.sub]

\* jwt.decode(token, key, algorithms=["HS256"]) at an instant
jwt_decode(token, key, instant) ==
    IF token.sig # Sign(key, token.sub, token.exp) THEN Invalid
    ELSE IF Instant(token.exp) <= instant THEN Invalid
    ELSE [ok |-> TRUE, sub |-> token.sub]

load_user_IgnoreActive(us, email) == UserByEmail(us, email)

\* the user loader: the row for the email, None (0) when missing or inactive
load_user(us, email) ==
    LET user == UserByEmail(us, email) IN
    IF user # 0 /\ ~us[user].is_active THEN 0 ELSE user

\* Depends(manager): the user of the presented token, 0 when the manager
\* raises InvalidCredentialsException
manager(us, token, instant) ==
    IF token = NoToken THEN 0
    ELSE LET payload == jwt_decode(token, SECRET_KEY, instant) IN
         IF ~payload.ok THEN 0
         ELSE IF payload.sub = "" THEN 0
         ELSE load_user(us, payload.sub)

get_current_user_optional(us, token, instant) ==
    IF token = NoToken THEN 0
    ELSE LET payload == jwt_decode(token, SECRET_KEY, instant) IN
         IF ~payload.ok THEN 0
         ELSE IF payload.sub = "" THEN 0
         ELSE load_user(us, payload.sub)

----------------------------------------------------------------------------
(* Responses of the session endpoints *)

SetCookie(token, max_age) == <<[name |-> "access-token", value |-> token, max_age |-> max_age]>>
DeleteCookie == SetCookie(NoToken, Some(0))
LoginFailed == Response(200, <<"fragments/auth_error.html", "Invalid email or password">>)
ApiLoginFailed == Response(401, <<"detail", "Incorrect email or password">>)
EmailRegistered == Response(200, <<"fragments/auth_error.html", "Email already registered">>)
ApiEmailRegistered == Response(400, <<"detail", "Email already registered">>)
Unauthorized == Response(401, <<"detail", "InvalidCredentialsException">>)
Page(template, user) == Response(200, <<template, user>>)
Forbidden == Response(403, <<"detail", "Not enough permissions">>)
\* an exception no handler catches: the server answers 500
ServerError(exc) == Response(500, <<"Internal Server Error", exc>>)
\* response_model=UserResponse: the schema requires a `username`, a field
\* the user table does not have, so no user row passes it
UserResponse(user) == ServerError("ResponseValidationError")
\* response_model=List[UserResponse]
UserResponseList(rows) ==
    IF rows = <<>> THEN Response(200, <<"List[UserResponse]">>)
    ELSE UserResponse(rows[1])
Redirect(status, url) == Response(status, <<"Location", url>>)

AllEmails == Emails \cup NewEmails
RememberValues == {"", "true", "false"}      \* "" is an absent field
\* the tokens a client may present: none, a malformed string, tokens as
\* the server issues them, tokens signed with another key, and tokens whose
\* subject was changed after signing
ClientTokens ==
    {NoToken, [sub |-> "", exp |-> 0, sig |-> <<"invalid.token.here">>]}
    \cup {create_access_token(e, Instant(ACCESS_TOKEN_EXPIRE), Instant(t)) :
             e \in AllEmails, t \in 0..MaxTime}
    \cup {create_access_token(e, Instant(REMEMBER_ME_EXPIRE), 0) : e \in AllEmails}
    \cup {[sub |-> e, exp |-> MaxTime + 1, sig |-> Sign("another key", e, MaxTime + 1)] :
             e \in Emails}
    \cup {[sub |-> e, exp |-> MaxTime + 1, sig |-> Sign(SECRET_KEY, "b@x", MaxTime + 1)] :
             e \in Emails \ {"b@x"}}

----------------------------------------------------------------------------
(* POST /auth/login (form) and POST /auth/token (API) *)

LoginExpires_AnyValue(remember_me) ==
    IF remember_me # "" THEN REMEMBER_ME_EXPIRE ELSE ACCESS_TOKEN_EXPIRE

\* the lifetime the login form asks for: 30 days for remember_me == "true"
LoginExpires(remember_me) ==
    IF remember_me = "true" THEN REMEMBER_ME_EXPIRE ELSE ACCESS_TOKEN_EXPIRE

handle_login(email, password, remember_me, cookie_token, form_token, hx) ==
    /\ IF form_token = ""
       THEN resp' = ValidationFailed
       ELSE IF ~verify_csrf(cookie_token, form_token)
       THEN resp' = CsrfFailed
       ELSE LET user == authenticate_user(users, email, password) IN
            IF user = 0
            THEN resp' = LoginFailed
            ELSE LET expires == LoginExpires(remember_me)
                     access_token == create_access_token(users[user].email, Instant(expires),
                                                     Instant(now))
                 IN resp' = [hx_redirect("/dashboard", hx) EXCEPT
                               !.set_cookie = SetCookie(access_token, Some(expires))]
    /\ request' = <<"handle_login", email, password>>
    /\ UNCHANGED <<users, reset_tokens, now, email_on, outbox, log, req, hits, pending, issued, browser>>

\* the response of POST /auth/token
TokenResponse(us, username, password, t) ==
    LET user == authenticate_user(us, username, password) IN
    IF user = 0
    THEN ApiLoginFailed
    ELSE LET access_token == create_access_token(us[user].email,
                                Instant(ACCESS_TOKEN_EXPIRE), Instant(t))
         IN [Response(200, <<"token_type", "bearer">>) EXCEPT
               !.access_token = access_token,
               \* manager.set_cookie(response, token) gives no max_age
               !.set_cookie = SetCookie(access_token, NULL)]

login(username, password) ==
    /\ resp' = TokenResponse(users, username, password, now)
    /\ request' = <<"login", username, password>>
    /\ UNCHANGED <<users, reset_tokens, now, email_on, outbox, log, req, hits, pending, issued, browser>>

----------------------------------------------------------------------------
(* Routes behind the session token *)

\* GET /users/me
read_users_me(token) ==
    /\ LET current_user == manager(users, token, Instant(now)) IN
       resp' = IF current_user = 0 THEN Unauthorized
               ELSE UserResponse(users[current_user])
    /\ request' = <<"read_users_me", token>>
    /\ UNCHANGED <<users, reset_tokens, now, email_on, outbox, log, req, hits, pending, issued, browser>>

\* GET /dashboard
dashboard_page(token) ==
    /\ LET current_user == get_current_user_optional(users, token, Instant(now)) IN
       resp' = IF current_user = 0 THEN Redirect(302, "/login")
               ELSE Page("dashboard.html", users[current_user].email)
    /\ request' = <<"dashboard_page", token>>
    /\ UNCHANGED <<users, reset_tokens, now, email_on, outbox, log, req, hits, pending, issued, browser>>

EmailTakenByOther_OrSelf(us, email, current_user) ==
    \E u \in 1..Len(us) : us[u].email = email

\* select(User).where((User.email == email) & (User.id != current_user.id))
EmailTakenByOther(us, email, current_user) ==
    \E u \in 1..Len(us) : us[u].email = email /\ u # current_user

\* PUT /users/me with a new email
update_user_me(token, email) ==
    /\ LET current_user == manager(users, token, Instant(now)) IN
       IF current_user = 0
       THEN resp' = Unauthorized /\ users' = users
       ELSE IF EmailTakenByOther(users, email, current_user)
       THEN resp' = ApiEmailRegistered /\ users' = users
       ELSE /\ users' = [users EXCEPT ![current_user].email = email]
            /\ resp' = UserResponse(users'[current_user])
    /\ request' = <<"update_user_me", token>>
    /\ UNCHANGED <<reset_tokens, now, email_on, outbox, log, req, hits, pending, issued, browser>>

logout_Deactivates(token, cookie_token, form_token) ==
    /\ resp' = [Redirect(302, "/") EXCEPT !.set_cookie = DeleteCookie]
    /\ request' = <<"logout", token>>
    /\ users' = [u \in 1..Len(users) |->
                    IF users[u].email = token.sub
                    THEN [users[u] EXCEPT !.is_active = FALSE] ELSE users[u]]
    /\ UNCHANGED <<reset_tokens, now, email_on, outbox, log, req, hits, pending, issued, browser>>

\* POST /logout; the handler declares no csrf field and never reads the
\* CSRF cookie or form value the submission carries
logout(token, cookie_token, form_token) ==
    /\ resp' = [Redirect(302, "/") EXCEPT !.set_cookie = DeleteCookie]
    /\ request' = <<"logout", token>>
    /\ UNCHANGED <<users, reset_tokens, now, email_on, outbox, log, req, hits, pending, issued, browser>>

\* an operator switches the is_active column of a user row in the database
set_is_active(u, active) ==
    /\ u \in 1..Len(users)
    /\ users[u].is_active # active
    /\ users' = [users EXCEPT ![u].is_active = active]
    /\ UNCHANGED <<reset_tokens, now, email_on, outbox, log, req, request, resp, hits, pending, issued, browser>>

SessionNext ==
    \/ Tick
    \/ \E email \in AllEmails, password \in Passwords, remember_me \in RememberValues,
          hx \in BOOLEAN :
          handle_login(email, password, remember_me, "c1", "c1", hx)
    \/ \E username \in AllEmails, password \in Passwords : login(username, password)
    \/ \E token \in ClientTokens : read_users_me(token)
    \/ \E token \in ClientTokens : dashboard_page(token)
    \/ \E token \in ClientTokens, email \in AllEmails : update_user_me(token, email)
    \/ \E u \in 1..Len(users), active \in BOOLEAN : set_is_active(u, active)

SessionSpec == Init /\ [][SessionNext]_vars

----------------------------------------------------------------------------
(* POST /auth/signup *)

handle_signup(email, password, cookie_token, form_token, hx) ==
    /\ IF form_token = ""
       THEN resp' = ValidationFailed /\ users' = users
       ELSE IF ~verify_csrf(cookie_token, form_token)
       THEN resp' = CsrfFailed /\ users' = users
       ELSE IF UserByEmail(users, email) # 0
       THEN resp' = EmailRegistered /\ users' = users
       ELSE \E salt \in Salts :
              /\ users' = Append(users,
                    [email |-> email,
                     hashed_password |-> get_password_hash(password, salt),
                     is_active |-> TRUE, is_superuser |-> FALSE])
              /\ LET access_token == create_access_token(email, Instant(ACCESS_TOKEN_EXPIRE),
                                                        Instant(now))
                 IN resp' = [hx_redirect("/dashboard", hx) EXCEPT
                               !.set_cookie = SetCookie(access_token,
                                                        Some(ACCESS_TOKEN_EXPIRE))]
    /\ request' = <<"handle_signup", email, password>>
    /\ UNCHANGED <<reset_tokens, now, email_on, outbox, log, req, hits, pending, issued, browser>>

\* the form submissions of one browser, one after the other, for a
\* registered and an unregistered email
FormEmails == {"a@x", "n@x"}
FormTokens == {NoToken, create_access_token("a@x", Instant(REMEMBER_ME_EXPIRE), 0)}

FormNext ==
    \/ \E email \in FormEmails, password \in Passwords, cf \in CsrfPairs :
          handle_login(email, password, "", cf[1], cf[2], TRUE)
    \/ \E email \in FormEmails, cf \in CsrfPairs :
          handle_signup(email, "pw1", cf[1], cf[2], TRUE)
    \/ /\ Len(reset_tokens) < MaxTokens
       /\ \E email \in FormEmails, cf \in CsrfPairs :
             handle_forgot_password(email, cf[1], cf[2])
    \/ \E task \in outbox : send_password_reset(task)
    \/ \E token \in IssuedSecrets \cup GarbageTokens, cf \in CsrfPairs :
          reset_lookup("r1", token, "pw2", cf[1], cf[2])
    \/ \E hx \in BOOLEAN : reset_commit("r1", hx)
    \/ \E token \in FormTokens, cf \in CsrfPairs : logout(token, cf[1], cf[2])

FormSpec == Init /\ [][FormNext]_vars

----------------------------------------------------------------------------
(* The token codec on its own: issue a token for any subject and lifetime, *)
(* let time pass, decode it                                                *)

MaxTTL == 2                 \* longest lifetime, in half units
Halves == {0, 1}            \* the half of `now` in which a call runs

\* manager.create_access_token(data={"sub": sub}, expires=expires)
issue_token(sub, expires, half) ==
    LET instant == Instant(now) + half IN
    /\ request' = <<"create_access_token", sub, expires, instant>>
    /\ resp' = [Response(200, <<"access_token">>) EXCEPT
                  !.access_token = create_access_token(sub, expires, instant)]
    /\ UNCHANGED <<users, reset_tokens, now, email_on, outbox, log, req, hits, pending, issued, browser>>

\* jwt.decode of the token issued last
decode_token(half) ==
    LET instant == Instant(now) + half IN
    /\ request # <<>> /\ request[1] \in {"create_access_token", "jwt.decode"}
    /\ instant >= request[4]
    /\ request' = <<"jwt.decode", request[2], request[3], request[4], instant>>
    /\ LET payload == jwt_decode(resp.access_token, SECRET_KEY, instant) IN
       resp' = [resp EXCEPT !.body =
                   IF payload.ok THEN <<"payload", payload.sub>> ELSE <<"Invalid">>]
    /\ UNCHANGED <<users, reset_tokens, now, email_on, outbox, log, req, hits, pending, issued, browser>>

CodecNext ==
    \/ Tick
    \/ \E sub \in AllEmails, expires \in 0..MaxTTL, half \in Halves :
          issue_token(sub, expires, half)
    \/ \E half \in Halves : decode_token(half)

CodecSpec == Init /\ [][CodecNext]_vars

----------------------------------------------------------------------------
(* Properties of the form endpoints, checked under FormSpec *)

\* the request a step has served, as the handler recorded it
ServedBy(op) == request' # <<>> /\ request'[1] = op
Served(call) == request' = call

\* the CSRF form value is missing, or differs from the CSRF cookie
CsrfMismatch(cookie_token, form_token) ==
    form_token = "" \/ cookie_token # form_token
StoreUnchanged ==
    users' = users /\ reset_tokens' = reset_tokens /\ outbox' = outbox
RejectedUntouched(rsp) ==
    /\ rsp \in {CsrfFailed, ValidationFailed}
    /\ rsp.set_cookie = NoCookie
    /\ StoreUnchanged
Proceeds(rsp) == rsp \notin {CsrfFailed, ValidationFailed, NoResponse}
Gate(cf, rsp) ==
    IF CsrfMismatch(cf[1], cf[2]) THEN RejectedUntouched(rsp) ELSE Proceeds(rsp)

\* the gate of the four handlers that call verify_csrf
FormGate ==
    /\ ServedBy("handle_login") =>
          \A email \in FormEmails, password \in Passwords :
             Served(<<"handle_login", email, password>>) =>
                \A cf \in CsrfPairs, remember_me \in RememberValues, hx \in BOOLEAN :
                   handle_login(email, password, remember_me, cf[1], cf[2], hx)
                   => Gate(cf, resp')
    /\ ServedBy("handle_signup") =>
          \A email \in FormEmails, password \in Passwords :
             Served(<<"handle_signup", email, password>>) =>
                \A cf \in CsrfPairs, hx \in BOOLEAN :
                   handle_signup(email, password, cf[1], cf[2], hx)
                   => Gate(cf, resp')
    /\ (ServedBy("handle_forgot_password") /\ resp' \in {CsrfFailed, ValidationFailed, ForgotSuccess}) =>
          \A email \in FormEmails, cf \in CsrfPairs :
             handle_forgot_password(email, cf[1], cf[2])
             => Gate(cf, resp')
    /\ (req["r1"].pc = "idle" /\ req'["r1"].pc # "idle") =>
          \A token \in RawSecrets \cup GarbageTokens, pw \in Passwords, cf \in CsrfPairs :
             reset_lookup("r1", token, pw, cf[1], cf[2])
             => IF CsrfMismatch(cf[1], cf[2])
                THEN req'["r1"].pc = "done" /\ RejectedUntouched(req'["r1"].resp)
                ELSE \/ req'["r1"].pc = "found" /\ StoreUnchanged
                     \/ req'["r1"].pc = "done" /\ Proceeds(req'["r1"].resp)

\* C7 as stated: a form submission to /auth/login, /auth/signup,
\* /auth/forgot, /auth/reset or /logout whose CSRF form value is missing or
\* differs from the cookie is rejected with no user, reset-token or
\* session-cookie state changed; a matching pair proceeds to business logic.
C7_CsrfGateOnEveryForm ==
    [][ /\ FormGate
        /\ ServedBy("logout") =>
              \A token \in FormTokens, cf \in CsrfPairs :
                 logout(token, cf[1], cf[2]) => Gate(cf, resp')
      ]_vars

\* C7 as amended: the same for /auth/login, /auth/signup, /auth/forgot and
\* /auth/reset; POST /logout is not CSRF-checked and deletes the session
\* cookie whatever CSRF values the submission carries.
C7_CsrfGateOnAuthForms ==
    [][ /\ FormGate
        /\ ServedBy("logout") =>
              \A token \in FormTokens, cf \in CsrfPairs :
                 logout(token, cf[1], cf[2])
                 => resp'.status = 302 /\ resp'.set_cookie = DeleteCookie /\ StoreUnchanged
      ]_vars

\* correct credentials of an active user, refused by the CSRF check, with a
\* reset token in the store that the refusal left alone
C7_Witness ==
    /\ request = <<"handle_login", "a@x", "pw1">>
    /\ authenticate_user(users, "a@x", "pw1") = 1
    /\ resp = CsrfFailed
    /\ reset_tokens # <<>>

----------------------------------------------------------------------------
(* Properties of the session endpoints, checked under SessionSpec *)

\* the three reasons a login fails
UnknownEmail(email) == \A u \in 1..Len(users) : users[u].email # email
WrongPassword(email, password) ==
    \E u \in 1..Len(users) :
       users[u].email = email /\ ~verify_password(password, users[u].hashed_password)
InactiveAccount(email, password) ==
    \E u \in 1..Len(users) :
       /\ users[u].email = email
       /\ verify_password(password, users[u].hashed_password)
       /\ ~users[u].is_active
LoginFails(email, password) ==
    \/ UnknownEmail(email)
    \/ WrongPassword(email, password)
    \/ InactiveAccount(email, password)

NoActiveUser(email) ==
    \A u \in 1..Len(users) : users[u].email = email => ~users[u].is_active
Presentable(token) ==
    /\ token.sig = Sign(SECRET_KEY, token.sub, token.exp)
    /\ token.exp > now

\* C9: a request that presents a validly signed, unexpired token whose
\* subject is not the email of an active user in the store is answered 401
\* on the protected routes and as anonymous on the optional-auth page.
C9_DeactivatedUserRejected ==
    [][ (ServedBy("read_users_me") \/ ServedBy("dashboard_page") \/ ServedBy("update_user_me")) =>
           LET token == request'[2] IN
           (token \in ClientTokens /\ Presentable(token) /\ NoActiveUser(token.sub))
           => /\ read_users_me(token) => resp' = Unauthorized
              /\ dashboard_page(token) => resp' = Redirect(302, "/login")
              /\ \A email \in AllEmails :
                    update_user_me(token, email)
                    => resp' = Unauthorized /\ users' = users
      ]_vars

\* a token of the kind the login issues, presented while its user is inactive
C9_Witness ==
    \E u \in 1..Len(users), t \in 0..MaxTime :
       /\ request = <<"read_users_me",
                      create_access_token(users[u].email, Instant(ACCESS_TOKEN_EXPIRE),
                                          Instant(t))>>
       /\ t <= now /\ now < t + ACCESS_TOKEN_EXPIRE
       /\ ~users[u].is_active
       /\ resp = Unauthorized

----------------------------------------------------------------------------
(* Property of the token codec, checked under CodecSpec *)

Decoded == request # <<>> /\ request[1] = "jwt.decode"
DecodesTo(s) ==
    /\ resp.body = <<"payload", s>>
    /\ manager(users, resp.access_token, request[5]) = load_user(users, s)
    /\ get_current_user_optional(users, resp.access_token, request[5]) = load_user(users, s)
DecodesInvalid ==
    /\ resp.body = <<"Invalid">>
    /\ manager(users, resp.access_token, request[5]) = 0
    /\ get_current_user_optional(users, resp.access_token, request[5]) = 0

\* C10 as stated: a token issued for subject s at time T with lifetime
\* t > 0 decodes to subject s at every time strictly before T + t and is
\* Invalid at every time from T + t on.
C10_TokenRoundTrip ==
    Decoded =>
       LET s == request[2]
           t == request[3]
           T == request[4]
           V == request[5]
       IN t > 0 => IF V < T + t THEN DecodesTo(s) ELSE DecodesInvalid

\* C10 as amended: the expiry the token carries is T + t cut down to the
\* whole second; the token decodes to subject s at every time strictly
\* before that second and is Invalid from that second on, on the manager's
\* path and on the optional-auth path alike.
C10_TokenRoundTripWholeSeconds ==
    Decoded =>
       LET s == request[2]
           t == request[3]
           T == request[4]
           V == request[5]
           E == (T + t) - ((T + t) % 2)
       IN t > 0 => IF V < E THEN DecodesTo(s) ELSE DecodesInvalid

\* a token decoded in the half second before T + t, after its whole-second
\* expiry
C10_Witness ==
    /\ Decoded
    /\ request[3] > 0
    /\ request[5] < request[4] + request[3]
    /\ resp.body = <<"Invalid">>

----------------------------------------------------------------------------
(* Further properties of the session endpoints, checked under SessionSpec *)

\* a presented token that is empty, malformed, wrongly signed or expired
BadToken(token) ==
    \/ token = NoToken
    \/ token.sig # Sign(SECRET_KEY, token.sub, token.exp)
    \/ token.exp <= now

\* C11: a presented token that is empty, malformed, wrongly signed or
\* expired authenticates nobody: the protected routes answer with the one
\* 401 response, and the optional-auth page treats the request as anonymous.
C11_BadTokenNeverAuthenticates ==
    [][ (ServedBy("read_users_me") \/ ServedBy("dashboard_page") \/ ServedBy("update_user_me")) =>
           LET token == request'[2] IN
           (token \in ClientTokens /\ BadToken(token))
           => /\ read_users_me(token) => resp' = Unauthorized
              /\ dashboard_page(token) => resp' = Redirect(302, "/login")
              /\ \A email \in AllEmails :
                    update_user_me(token, email)
                    => resp' = Unauthorized /\ users' = users
      ]_vars

\* a token signed with another key for an active user, answered 401
C11_Witness ==
    \E u \in 1..Len(users) :
       /\ users[u].is_active
       /\ request = <<"read_users_me",
                      [sub |-> users[u].email, exp |-> MaxTime + 1,
                       sig |-> Sign("another key", users[u].email, MaxTime + 1)]>>
       /\ resp = Unauthorized

----------------------------------------------------------------------------
(* The three ways to log in, next to each other: the login form, the       *)
(* signup form with its automatic login, and the API token endpoint        *)

\* what a client may send as remember_me: nothing, the value the form sends,
\* and other spellings of yes and no
LoginRememberValues == RememberValues \cup {"on", "True"}

LoginNext ==
    \/ Tick
    \/ \E email \in AllEmails, password \in Passwords, remember_me \in LoginRememberValues,
          hx \in BOOLEAN :
          handle_login(email, password, remember_me, "c1", "c1", hx)
    \/ \E email \in AllEmails, password \in Passwords, hx \in BOOLEAN :
          handle_signup(email, password, "c1", "c1", hx)
    \/ \E username \in AllEmails, password \in Passwords : login(username, password)

LoginSpec == Init /\ [][LoginNext]_vars

\* the response of this step sets a session cookie
SetsSession == resp'.set_cookie # NoCookie
SessionCookie == resp'.set_cookie[1]
\* the lifetime left to the token the cookie carries, in clock units
TokenTTL == SessionCookie.value.exp - now
MaxAgeIsTTL == SetsSession => SessionCookie.max_age = Some(TokenTTL)

\* C12: on every successful login that sets the session cookie (login form,
\* signup, API token endpoint) the cookie's max-age equals the lifetime of
\* the token it carries.
C12_CookieMaxAgeIsTokenTTL ==
    [][ \A email \in AllEmails, password \in Passwords :
          /\ Served(<<"handle_login", email, password>>) =>
                \A remember_me \in LoginRememberValues, hx \in BOOLEAN :
                   handle_login(email, password, remember_me, "c1", "c1", hx)
                   => MaxAgeIsTTL
          /\ Served(<<"handle_signup", email, password>>) =>
                \A hx \in BOOLEAN :
                   handle_signup(email, password, "c1", "c1", hx) => MaxAgeIsTTL
          /\ (Served(<<"login", email, password>>) /\ login(email, password))
                => MaxAgeIsTTL
      ]_vars

\* C13: the login form issues a token that lives 30 days exactly when
\* remember_me is "true", and the configured default for an absent field or
\* any other value; the API token endpoint always issues the default.
C13_RememberMeChoosesTTL ==
    [][ \A email \in AllEmails, password \in Passwords :
          /\ Served(<<"handle_login", email, password>>) =>
                \A remember_me \in LoginRememberValues, hx \in BOOLEAN :
                   (handle_login(email, password, remember_me, "c1", "c1", hx) /\ SetsSession)
                   => TokenTTL = IF remember_me = "true" THEN REMEMBER_ME_EXPIRE
                                 ELSE ACCESS_TOKEN_EXPIRE
          /\ (Served(<<"login", email, password>>) /\ login(email, password)
              /\ resp'.access_token # NoToken)
                => resp'.access_token.exp - now = ACCESS_TOKEN_EXPIRE
      ]_vars

\* a login that was answered with a 30-day token
C13_Witness ==
    /\ request # <<>> /\ request[1] = "handle_login"
    /\ resp.set_cookie # NoCookie
    /\ resp.set_cookie[1].value.exp >= REMEMBER_ME_EXPIRE
    /\ resp.set_cookie[1].max_age = Some(REMEMBER_ME_EXPIRE)

----------------------------------------------------------------------------
(* Rate limiting: @auth_limiter.limit("N/minute") around a handler.  The   *)
(* decorator counts the request against the client key and the endpoint,   *)
(* and only then calls the handler.  A window of one minute is over with   *)
(* the next tick of the clock.                                             *)

MaxHits == 6                \* rate-limited requests followed in one window

TOKEN_LIMIT == 5            \* POST /auth/token
SIGNUP_LIMIT == 5           \* POST /auth/signup
LOGIN_LIMIT == 10           \* POST /auth/login
FORGOT_LIMIT == 3           \* POST /auth/forgot
Limit(endpoint) ==
    CASE endpoint = "/auth/token" -> TOKEN_LIMIT
      [] endpoint = "/auth/signup" -> SIGNUP_LIMIT
      [] endpoint = "/auth/login" -> LOGIN_LIMIT
      [] endpoint = "/auth/forgot" -> FORGOT_LIMIT

RateLimited == Response(429, <<"Too Many Requests">>)

Allowed_OneMore(count, limit) == count <= limit + 1

incr_NotCounted(entry, t) == entry

\* the counter of a key after one more request at time t: a counter whose
\* window is over starts again at 1
incr(entry, t) ==
    IF entry.count > 0 /\ entry.at = t
    THEN [entry EXCEPT !.count = entry.count + 1]
    ELSE [count |-> 1, at |-> t]

\* limiter.hit: the request is let through while the counter, this request
\* included, does not exceed the limit
Allowed(count, limit) == count <= limit

RECURSIVE SumHits(_)
SumHits(cells) ==
    IF cells = {} THEN 0
    ELSE LET c == CHOOSE x \in cells : TRUE
         IN hits[c[1], c[2]].count + SumHits(cells \ {c})
TotalHits == SumHits(Endpoints \X ClientKeys)

\* the decorator's check of one arriving request
check_request_limit(endpoint, key, email, password) ==
    /\ IF request = <<>> THEN TRUE ELSE request[1] # "admitted"
    /\ LET entry == incr(hits[endpoint, key], now) IN
       /\ hits' = [hits EXCEPT ![endpoint, key] = entry]
       /\ IF Allowed(entry.count, Limit(endpoint))
          THEN /\ request' = <<"admitted", endpoint, key, email, password>>
               /\ resp' = resp
          ELSE /\ request' = <<"rate_limited", endpoint, key, email, password>>
               /\ resp' = RateLimited
    /\ UNCHANGED <<users, reset_tokens, now, email_on, outbox, log, req, pending, issued, browser>>

Admitted(endpoint) ==
    request # <<>> /\ request[1] = "admitted" /\ request[2] = endpoint

\* the handlers behind the decorator
limited_login ==
    /\ Admitted("/auth/token")
    /\ login(request[4], request[5])

limited_signup(cookie_token, form_token, hx) ==
    /\ Admitted("/auth/signup")
    /\ handle_signup(request[4], request[5], cookie_token, form_token, hx)

\* the forms sent: the right password of a registered user, and an
\* unregistered email
LimitForms == {<<"b@x", "pw2">>, <<"n@x", "pw1">>}

LimitNext ==
    \/ Tick
    \/ /\ TotalHits < MaxHits
       /\ \E endpoint \in Endpoints, key \in ClientKeys, form \in LimitForms :
             check_request_limit(endpoint, key, form[1], form[2])
    \/ limited_login
    \/ \E cf \in {<<"c1", "c1">>, <<"c1", "c2">>} : limited_signup(cf[1], cf[2], TRUE)

LimitSpec == Init /\ [][LimitNext]_vars

\* the key has made its N requests to the endpoint in the running window
LimitReached(endpoint, key) ==
    /\ hits[endpoint, key].count >= Limit(endpoint)
    /\ hits[endpoint, key].at = now

\* C14: once a client key has made N requests to an endpoint limited to N
\* per minute, its next request in the same window is answered 429 before
\* credentials are checked and before any store change, also with correct
\* credentials; the answer differs from that of a failed login.
C14_OverLimitRejectedFirst ==
    [][ ServedBy("rate_limited") \/ ServedBy("admitted") =>
          \A endpoint \in Endpoints, key \in ClientKeys, form \in LimitForms :
             (LimitReached(endpoint, key)
              /\ check_request_limit(endpoint, key, form[1], form[2]))
             => /\ resp' = RateLimited
                /\ resp'.status = 429
                /\ resp' \notin {ApiLoginFailed, LoginFailed, EmailRegistered}
                /\ resp'.set_cookie = NoCookie /\ resp'.access_token = NoToken
                /\ ~Admitted("/auth/token")' /\ ~Admitted("/auth/signup")'
                /\ StoreUnchanged
      ]_vars

\* the sixth login of a minute, with the right password, answered 429
C14_Witness ==
    /\ request # <<>> /\ request[1] = "rate_limited"
    /\ request[2] = "/auth/token"
    /\ authenticate_user(users, request[4], request[5]) # 0
    /\ hits["/auth/token", request[3]].count = TOKEN_LIMIT + 1
    /\ resp = RateLimited

----------------------------------------------------------------------------
(* POST /auth/register, GET /users/ and the admin flag *)

register_TrustsBody(has_username, email, password, is_superuser) ==
    /\ IF ~has_username
       THEN resp' = ValidationFailed /\ users' = users
       ELSE IF UserByEmail(users, email) # 0
       THEN resp' = ApiEmailRegistered /\ users' = users
       ELSE \E salt \in Salts :
              LET db_user == [email |-> email,
                              hashed_password |-> get_password_hash(password, salt),
                              is_active |-> TRUE, is_superuser |-> is_superuser]
              IN /\ users' = Append(users, db_user)
                 /\ resp' = UserResponse(db_user)
    /\ request' = <<"register", email, password, is_superuser>>
    /\ UNCHANGED <<reset_tokens, now, email_on, outbox, log, req, hits, pending, issued, browser>>

\* POST /auth/register with a JSON body.  UserCreate requires username,
\* email and password; an is_superuser entry of the body is no field of the
\* schema and is dropped.
register(has_username, email, password, is_superuser) ==
    /\ IF ~has_username
       THEN resp' = ValidationFailed /\ users' = users
       ELSE IF UserByEmail(users, email) # 0
       THEN resp' = ApiEmailRegistered /\ users' = users
       ELSE \E salt \in Salts :
              LET db_user == [email |-> email,
                              hashed_password |-> get_password_hash(password, salt),
                              is_active |-> TRUE, is_superuser |-> FALSE]
              IN /\ users' = Append(users, db_user)
                 /\ resp' = UserResponse(db_user)
    /\ request' = <<"register", email, password, is_superuser>>
    /\ UNCHANGED <<reset_tokens, now, email_on, outbox, log, req, hits, pending, issued, browser>>

HasAdminRights_Any(us, user) == TRUE

\* current_user.is_superuser of the row the manager has just loaded
HasAdminRights(us, user) == us[user].is_superuser

\* GET /users/?skip=
read_users(token, skip) ==
    /\ LET current_user == manager(users, token, Instant(now)) IN
       resp' = IF current_user = 0 THEN Unauthorized
               ELSE IF ~HasAdminRights(users, current_user) THEN Forbidden
               ELSE UserResponseList(SubSeq(users, skip + 1, Len(users)))
    /\ request' = <<"read_users", token>>
    /\ UNCHANGED <<users, reset_tokens, now, email_on, outbox, log, req, hits, pending, issued, browser>>

\* an administrator with database access writes the is_superuser column
set_is_superuser(u, flag) ==
    /\ u \in 1..Len(users)
    /\ users[u].is_superuser # flag
    /\ users' = [users EXCEPT ![u].is_superuser = flag]
    /\ UNCHANGED <<reset_tokens, now, email_on, outbox, log, req, request, resp, hits, pending, issued, browser>>

AdminNext ==
    \/ Tick
    \/ \E u \in 1..Len(users), flag \in BOOLEAN : set_is_superuser(u, flag)
    \/ \E u \in 1..Len(users), active \in BOOLEAN : set_is_active(u, active)
    \/ \E token \in ClientTokens, skip \in {0, 100} : read_users(token, skip)

AdminSpec == Init /\ [][AdminNext]_vars

\* the handler reached the user list: the response is the list, or the
\* fault of serialising its rows
ListsUsers(rsp) == rsp = Response(200, <<"List[UserResponse]">>) \/ rsp.status = 500

\* C18: GET /users/ lets the request through to the user list only when
\* the authenticated user's is_superuser flag, read from the store at request
\* time, is true; any other authenticated user gets 403 and no list, an
\* unauthenticated request 401.
C18_UserListOnlyForSuperuser ==
    [][ ServedBy("read_users") =>
          LET token == request'[2]
              current_user == manager(users, token, Instant(now)) IN
          \A skip \in {0, 100} :
             (token \in ClientTokens /\ read_users(token, skip))
             => /\ current_user = 0 => resp' = Unauthorized
                /\ (current_user # 0 /\ ~users[current_user].is_superuser)
                      => resp' = Forbidden
                /\ ListsUsers(resp')
                      => current_user # 0 /\ users[current_user].is_superuser
                /\ resp'.status \in {401, 403} => ~ListsUsers(resp')
                /\ users' = users
      ]_vars

\* a regular user with a valid token asking for the list while another
\* user is an administrator
C18_Witness ==
    \E t \in 0..MaxTime :
       /\ request = <<"read_users",
                      create_access_token("b@x", Instant(ACCESS_TOKEN_EXPIRE), Instant(t))>>
       /\ t <= now /\ now < t + ACCESS_TOKEN_EXPIRE
       /\ users[2].is_active /\ ~users[2].is_superuser
       /\ users[1].is_superuser
       /\ resp = Forbidden

----------------------------------------------------------------------------
(* Logging out and coming back with the token of before *)

LogoutTokens ==
    {NoToken}
    \cup {create_access_token(e, Instant(ACCESS_TOKEN_EXPIRE), Instant(t)) :
             e \in Emails, t \in 0..MaxTime}
    \cup {create_access_token("b@x", Instant(REMEMBER_ME_EXPIRE), 0)}

LogoutNext ==
    \/ Tick
    \/ \E email \in Emails, password \in Passwords, remember_me \in {"", "true"} :
          handle_login(email, password, remember_me, "c1", "c1", TRUE)
    \/ \E token \in LogoutTokens : logout(token, "c1", "c1")
    \/ \E token \in LogoutTokens : read_users_me(token)
    \/ \E token \in LogoutTokens : dashboard_page(token)
    \/ \E u \in 1..Len(users), active \in BOOLEAN : set_is_active(u, active)

LogoutSpec == Init /\ [][LogoutNext]_vars

\* the token is one the manager resolves to a user at this moment
Authenticates(token) == manager(users, token, Instant(now)) # 0

\* C20: POST /logout tells the client to delete the session cookie and
\* changes no server state; the unexpired token presented right after the
\* logout authenticates its user as before.
C20_LogoutRevokesNothing ==
    [][ \A token \in LogoutTokens :
          /\ (Served(<<"logout", token>>) /\ logout(token, "c1", "c1"))
                => /\ resp'.set_cookie = DeleteCookie
                   /\ UNCHANGED <<users, reset_tokens, now, email_on, outbox, log, req, hits, pending, issued, browser>>
                   /\ Authenticates(token)' = Authenticates(token)
          /\ (request = <<"logout", token>> /\ Authenticates(token))
                => /\ read_users_me(token) => resp' # Unauthorized
                   /\ dashboard_page(token)
                         => resp' = Page("dashboard.html", token.sub)
      ]_vars

\* a logout has been answered, and the token it was sent with still
\* resolves to its user
C20_Witness ==
    /\ request # <<>> /\ request[1] = "logout"
    /\ request[2] # NoToken
    /\ resp.set_cookie = DeleteCookie
    /\ Authenticates(request[2])

----------------------------------------------------------------------------
(* Accounts: every HTTP operation that writes the user table, one request  *)
(* at a time, next to an administrator who sets the admin flag in the      *)
(* database; one password reset is requested per behaviour (Spec covers    *)
(* repeated requests)                                                      *)

\* 30-day tokens of the three emails
AccountTokens ==
    {NoToken} \cup {create_access_token(e, Instant(REMEMBER_ME_EXPIRE), 0) : e \in AllEmails}

AccountNext ==
    \/ \E has_username \in BOOLEAN, email \in AllEmails, is_superuser \in BOOLEAN :
          register(has_username, email, "pw1", is_superuser)
    \/ \E email \in AllEmails : handle_signup(email, "pw1", "c1", "c1", TRUE)
    \/ \E token \in AccountTokens, email \in AllEmails : update_user_me(token, email)
    \/ \E username \in Emails : login(username, "pw1")
    \/ reset_tokens = <<>> /\ handle_forgot_password("a@x", "c1", "c1")
    \/ \E task \in outbox : send_password_reset(task)
    \/ \E token \in IssuedSecrets : reset_lookup("r1", token, "pw2", "c1", "c1")
    \/ reset_commit("r1", TRUE)
    \/ \E u \in 1..Len(users), flag \in BOOLEAN : set_is_superuser(u, flag)

AccountSpec == Init /\ [][AccountNext]_vars

Held(email) == \E u \in 1..Len(users) : users[u].email = email

C19_NoOperationGrantsAdmin ==
    [][ \/ \E u \in 1..Len(users), flag \in BOOLEAN : set_is_superuser(u, flag)
        \/ /\ Len(users') >= Len(users)
           /\ \A u \in 1..Len(users) : users'[u].is_superuser = users[u].is_superuser
           /\ \A u \in (Len(users) + 1)..Len(users') : ~users'[u].is_superuser
      ]_vars

\* a registration whose body asked for admin rights created a regular user,
\* next to an administrator
C19_Witness ==
    /\ request = <<"register", "n@x", "pw1", TRUE>>
    /\ Len(users) = 3
    /\ users[3].email = "n@x" /\ ~users[3].is_superuser
    /\ users[2].is_superuser

----------------------------------------------------------------------------
(* Account writes in flight at once.  Each handler first reads the user    *)
(* table (the existence check) and later commits; requests served by       *)
(* different server processes on the one SQLite file interleave between    *)
(* the two steps.  The table's UNIQUE index on email is checked by the     *)
(* database at the commit.                                                 *)

UniqueViolated_Never(us, email, self) == FALSE

\* email: str = Field(unique=True, index=True): the INSERT or UPDATE of a
\* row (self; 0 for a new row) fails when another row holds the email
UniqueViolated(us, email, self) ==
    \E u \in 1..Len(us) : u # self /\ us[u].email = email

Free(r) == pending[r].pc \in {"idle", "done"}
Done(op, response) == [IdleWrite EXCEPT !.pc = "done", !.op = op, !.resp = response]
NewUser(email, password, salt) ==
    [email |-> email, hashed_password |-> get_password_hash(password, salt),
     is_active |-> TRUE, is_superuser |-> FALSE]

\* POST /auth/register up to session.add(db_user), for a body that passes
\* validation
select_register(r, email, password) ==
    /\ Free(r)
    /\ IF UserByEmail(users, email) # 0
       THEN pending' = [pending EXCEPT ![r] = Done("register", ApiEmailRegistered)]
       ELSE \E salt \in Salts :
              pending' = [pending EXCEPT ![r] =
                            [pc |-> "commit", op |-> "register",
                             row |-> <<NewUser(email, password, salt)>>,
                             user |-> 0, resp |-> NoResponse]]
    /\ UNCHANGED <<users, reset_tokens, now, email_on, outbox, log, req, request, resp, hits, issued, browser>>

\* POST /auth/signup up to session.add(db_user)
select_signup(r, email, password, cookie_token, form_token) ==
    /\ Free(r)
    /\ IF ~verify_csrf(cookie_token, form_token)
       THEN pending' = [pending EXCEPT ![r] = Done("handle_signup", CsrfFailed)]
       ELSE IF UserByEmail(users, email) # 0
       THEN pending' = [pending EXCEPT ![r] = Done("handle_signup", EmailRegistered)]
       ELSE \E salt \in Salts :
              pending' = [pending EXCEPT ![r] =
                            [pc |-> "commit", op |-> "handle_signup",
                             row |-> <<NewUser(email, password, salt)>>,
                             user |-> 0, resp |-> NoResponse]]
    /\ UNCHANGED <<users, reset_tokens, now, email_on, outbox, log, req, request, resp, hits, issued, browser>>

\* PUT /users/me with a new email, up to session.add(current_user)
select_update(r, token, email) ==
    /\ Free(r)
    /\ LET current_user == manager(users, token, Instant(now)) IN
       IF current_user = 0
       THEN pending' = [pending EXCEPT ![r] = Done("update_user_me", Unauthorized)]
       ELSE IF EmailTakenByOther(users, email, current_user)
       THEN pending' = [pending EXCEPT ![r] = Done("update_user_me", ApiEmailRegistered)]
       ELSE pending' = [pending EXCEPT ![r] =
                          [pc |-> "commit", op |-> "update_user_me",
                           row |-> <<[users[current_user] EXCEPT !.email = email]>>,
                           user |-> current_user, resp |-> NoResponse]]
    /\ UNCHANGED <<users, reset_tokens, now, email_on, outbox, log, req, request, resp, hits, issued, browser>>

\* session.commit() and the rest of the handler.  No handler catches the
\* IntegrityError of a refused write, and the application registers no
\* handler for it: the request ends as a 500.
commit(r) ==
    /\ pending[r].pc = "commit"
    /\ LET op == pending[r].op
           row == pending[r].row[1]
           self == pending[r].user IN
       IF UniqueViolated(users, row.email, self)
       THEN /\ users' = users
            /\ pending' = [pending EXCEPT ![r] = Done(op, ServerError("IntegrityError"))]
       ELSE /\ users' = IF self = 0 THEN Append(users, row)
                        ELSE [users EXCEPT ![self].email = row.email]
            /\ pending' = [pending EXCEPT ![r] =
                 Done(op,
                      IF op = "handle_signup"
                      THEN [hx_redirect("/dashboard", TRUE) EXCEPT
                              !.set_cookie =
                                 SetCookie(create_access_token(row.email,
                                                               Instant(ACCESS_TOKEN_EXPIRE),
                                                               Instant(now)),
                                           Some(ACCESS_TOKEN_EXPIRE))]
                      ELSE UserResponse(row))]
    /\ UNCHANGED <<reset_tokens, now, email_on, outbox, log, req, request, resp, hits, issued, browser>>

RaceEmails == {"b@x", "n@x"}
RaceTokens == {create_access_token(e, Instant(REMEMBER_ME_EXPIRE), 0) : e \in Emails}

RaceNext ==
    \/ \E r \in ReqIds, email \in RaceEmails : select_register(r, email, "pw1")
    \/ \E r \in ReqIds, email \in RaceEmails : select_signup(r, email, "pw1", "c1", "c1")
    \/ \E r \in ReqIds, token \in RaceTokens, email \in RaceEmails :
          select_update(r, token, email)
    \/ \E r \in ReqIds : commit(r)

RaceSpec == Init /\ [][RaceNext]_vars

\* C15: whatever API registrations, form signups and profile email updates
\* have run, in sequence or interleaved, no two user records hold the same
\* email.
C15_EmailsUnique ==
    \A u, v \in 1..Len(users) : users[u].email = users[v].email => u = v

\* the unique index has refused the write of a request whose own existence
\* check had found the email free
C15_Witness ==
    /\ \E r \in ReqIds : /\ pending[r].pc = "done"
                         /\ pending[r].resp = ServerError("IntegrityError")
    /\ Len(users) = 3

\* C16: when two requests that claim the same email run at once, the one
\* that loses is answered with the structured duplicate-email response: no
\* request ends in an unhandled fault because of the conflict.
C16_ConflictAnsweredStructured ==
    \A r \in ReqIds :
       pending[r].pc = "done" => pending[r].resp # ServerError("IntegrityError")

----------------------------------------------------------------------------
(* The reasons of a refused redemption, checked under Spec *)

\* C21: a POST /auth/reset with the secret of a token that has been used
\* (and has not expired) is refused with a reason of its own, which is not
\* the "Invalid or expired token" given for expired and unknown tokens.
C21_UsedTokenHasOwnReason ==
    [][ \A r \in ReqIds, token \in IssuedSecrets, pw \in Passwords :
           ( /\ reset_lookup(r, token, pw, "c1", "c1")
             /\ \E i \in RowOf(reset_tokens, token) :
                   /\ reset_tokens[i].used_at # NULL
                   /\ reset_tokens[i].expires_at > now )
           => /\ req'[r].pc = "done"
              /\ ~Redirected(req'[r].resp)
              /\ req'[r].resp # ResetInvalid
      ]_vars

----------------------------------------------------------------------------
(* The notifier.  The handler queues the send as a background task after  *)
(* session.commit(); the task runs once the response has been sent, and   *)
(* the provider call in it may raise.                                     *)

send_password_reset_raises_Propagates(task) ==
    /\ task \in outbox
    /\ outbox' = outbox \ {task}
    /\ log' = log \cup {[event |-> "Email send failed", data |-> <<"to", task.email, "">>]}
    /\ resp' = ServerError("ResendError")
    /\ reset_tokens' = [i \in 1..Len(reset_tokens) |->
                          IF reset_tokens[i].token_hash = sha256_hex(task.token)
                          THEN [reset_tokens[i] EXCEPT !.used_at = Some(now)]
                          ELSE reset_tokens[i]]
    /\ UNCHANGED <<users, now, email_on, req, request, hits, pending, issued, browser>>

\* the background task when resend.Emails.send raises: EmailClient.send logs
\* the recipient and the error and re-raises, after the response is out
send_password_reset_raises(task) ==
    /\ task \in outbox
    /\ outbox' = outbox \ {task}
    /\ log' = log \cup {[event |-> "Email send failed", data |-> <<"to", task.email, "">>]}
    /\ UNCHANGED <<users, reset_tokens, now, email_on, req, request, resp, hits, pending, issued, browser>>

NotifyNext ==
    \/ Tick
    \/ /\ Len(reset_tokens) < MaxTokens
       /\ \E email \in Emails \cup NewEmails, cf \in CsrfPairs :
             handle_forgot_password(email, cf[1], cf[2])
    \/ \E task \in outbox : send_password_reset(task)
    \/ \E task \in outbox : send_password_reset_raises(task)
    \/ \E r \in ReqIds, token \in IssuedSecrets, pw \in Passwords :
          reset_lookup(r, token, pw, "c1", "c1")
    \/ \E r \in ReqIds : reset_commit(r, TRUE)

NotifySpec == Init /\ [][NotifyNext]_vars

HasRow(toks, raw_token) ==
    \E i \in 1..Len(toks) : toks[i].token_hash = sha256_hex(raw_token)
SendFailed(email) ==
    [event |-> "Email send failed", data |-> <<"to", email, "">>] \in log

\* C22: for a reset request that matches a user, the token row is in the
\* store when the send is queued and whenever the notifier runs; the
\* request is answered with the success response while the send is still
\* queued; and a send that fails changes neither the response nor any token
\* row nor any user.
C22_NotifierNeverHoldsTheResponse ==
    [][ /\ \A task \in outbox' : HasRow(reset_tokens', task.token)
        /\ \A email \in Emails, c \in CsrfValues \ {""} :
              (email_on /\ handle_forgot_password(email, c, c))
              => /\ resp' = ForgotSuccess
                 /\ \E task \in outbox' \ outbox :
                       /\ task.email = email
                       /\ HasRow(reset_tokens', task.token)
                       /\ ~HasRow(reset_tokens, task.token)
        /\ \A task \in outbox :
              send_password_reset_raises(task)
              => /\ resp' = resp
                 /\ reset_tokens' = reset_tokens
                 /\ users' = users
      ]_vars

\* the send for a@x has failed; the request had been answered with the
\* success response and the token is still there, unused
C22_Witness ==
    /\ SendFailed("a@x")
    /\ outbox = {}
    /\ resp = ForgotSuccess
    /\ Len(reset_tokens) = 1
    /\ reset_tokens[1].used_at = NULL

----------------------------------------------------------------------------
(* Letter case of emails.  The handlers pass the submitted string to the  *)
(* query as it is, and the email column compares byte by byte (SQLite's   *)
(* default BINARY collation).  EmailStr of the JSON bodies lowers the     *)
(* domain part only, so a variant in the local part reaches the query     *)
(* unchanged on every route.                                              *)

\* "A@x" is "a@x" with another letter case in the local part
CaseEmails == {"a@x", "A@x", "n@x"}
lower(email) == IF email = "A@x" THEN "a@x" ELSE email

CaseNext ==
    \/ \E email \in CaseEmails : handle_signup(email, "pw1", "c1", "c1", TRUE)
    \/ \E email \in CaseEmails : register(TRUE, email, "pw1", FALSE)
    \/ \E email \in CaseEmails, password \in Passwords :
          handle_login(email, password, "", "c1", "c1", TRUE)
    \/ /\ Len(reset_tokens) < MaxTokens
       /\ \E email \in CaseEmails : handle_forgot_password(email, "c1", "c1")
    \/ \E task \in outbox : send_password_reset(task)

CaseSpec == Init /\ [][CaseNext]_vars

HeldIgnoringCase(email) ==
    \E u \in 1..Len(users) : lower(users[u].email) = lower(email)

\* C23: emails are compared case-normalized: a signup or registration with
\* an email that differs from a user's email in letter case only is refused
\* as a duplicate, and a login or a reset request with such a variant
\* resolves to that user.
C23_EmailsCaseNormalized ==
    [][ /\ ServedBy("handle_signup") =>
              \A email \in CaseEmails :
                 (HeldIgnoringCase(email) /\ handle_signup(email, "pw1", "c1", "c1", TRUE))
                 => resp' = EmailRegistered /\ users' = users
        /\ ServedBy("register") =>
              \A email \in CaseEmails :
                 (HeldIgnoringCase(email) /\ register(TRUE, email, "pw1", FALSE))
                 => resp' = ApiEmailRegistered /\ users' = users
        /\ ServedBy("handle_login") =>
              \A email \in CaseEmails, password \in Passwords :
                 handle_login(email, password, "", "c1", "c1", TRUE)
                 => (resp' = LoginFailed
                       <=> authenticate_user(users, lower(email), password) = 0)
        /\ ServedBy("handle_forgot_password") =>
              \A email \in CaseEmails :
                 (HeldIgnoringCase(email) /\ handle_forgot_password(email, "c1", "c1"))
                 => /\ Len(reset_tokens') = Len(reset_tokens) + 1
                    /\ reset_tokens'[Len(reset_tokens')].user_id
                          = UserByEmail(users, lower(email))
      ]_vars

----------------------------------------------------------------------------
(* Where a request carries its token.  The /users routes take the user    *)
(* from Depends(manager), a LoginManager with use_cookie and use_header;  *)
(* the pages take it from get_current_user_optional, which reads          *)
(* request.cookies only.                                                  *)

get_token_HeaderFirst(cookie, header) ==
    IF header # NoToken THEN header ELSE cookie

\* LoginManager._get_token: the access-token cookie when the request has a
\* non-empty one, else the Authorization: Bearer header
get_token(cookie, header) ==
    IF cookie # NoToken THEN cookie ELSE header

\* the tokens a client holds: none, 30-day tokens of a@x and b@x, a default
\* token of b@x issued at 0, and the token of the last API login
BearerTokens ==
    {NoToken,
     create_access_token("a@x", Instant(REMEMBER_ME_EXPIRE), 0),
     create_access_token("b@x", Instant(REMEMBER_ME_EXPIRE), 0),
     create_access_token("b@x", Instant(ACCESS_TOKEN_EXPIRE), 0),
     resp.access_token}

\* the emails a profile update asks for: one that is taken, one that is free
BearerEmails == {"a@x", "n@x"}

BearerNext ==
    \/ Tick
    \/ \E username \in Emails, password \in Passwords : login(username, password)
    \/ \E cookie, header \in BearerTokens : read_users_me(get_token(cookie, header))
    \/ \E cookie, header \in BearerTokens, email \in BearerEmails :
          update_user_me(get_token(cookie, header), email)
    \/ \E cookie, header \in BearerTokens : dashboard_page(cookie)
    \/ \E u \in 1..Len(users), active \in BOOLEAN : set_is_active(u, active)

BearerSpec == Init /\ [][BearerNext]_vars

\* the answers of GET /users/me and PUT /users/me to the user a token
\* resolves to
MeAnswer(token) ==
    IF manager(users, token, Instant(now)) = 0 THEN Unauthorized
    ELSE UserResponse(users[manager(users, token, Instant(now))])
UpdateAnswer(token, email) ==
    LET current_user == manager(users, token, Instant(now)) IN
    IF current_user = 0 THEN resp' = Unauthorized /\ users' = users
    ELSE IF \E u \in 1..Len(users) : u # current_user /\ users[u].email = email
    THEN resp' = ApiEmailRegistered /\ users' = users
    ELSE users' = [users EXCEPT ![current_user].email = email]

BodyTokenIsCookieToken ==
    ServedBy("login") =>
       (resp'.status = 200
          => /\ resp'.access_token # NoToken
             /\ resp'.set_cookie # NoCookie
             /\ resp'.set_cookie[1].value = resp'.access_token)

\* the routes behind Depends(manager): the token counts from the cookie or
\* from the header alike; with both, the cookie decides
ManagerRoutesTakeEither ==
    /\ ServedBy("read_users_me") =>
          \A cookie, header \in BearerTokens :
             read_users_me(get_token(cookie, header))
             => /\ cookie # NoToken => resp' = MeAnswer(cookie)
                /\ cookie = NoToken => resp' = MeAnswer(header)
    /\ ServedBy("update_user_me") =>
          \A cookie, header \in BearerTokens, email \in BearerEmails :
             update_user_me(get_token(cookie, header), email)
             => /\ cookie # NoToken => UpdateAnswer(cookie, email)
                /\ cookie = NoToken => UpdateAnswer(header, email)

\* C24 as stated: a successful API login returns in its body the token it
\* sets as the cookie, and every protected route, the pages included, takes
\* that token from the cookie or from the Authorization header, resolving
\* the same user, with the cookie preferred when both are there.
C24_TokenByCookieOrHeader ==
    [][ /\ BodyTokenIsCookieToken
        /\ ManagerRoutesTakeEither
        /\ ServedBy("dashboard_page") =>
              \A cookie, header \in BearerTokens :
                 dashboard_page(cookie)
                 => LET current_user == manager(users, get_token(cookie, header),
                                                Instant(now)) IN
                    resp' = IF current_user = 0 THEN Redirect(302, "/login")
                            ELSE Page("dashboard.html", users[current_user].email)
      ]_vars

\* C24 as amended: a successful API login returns in its body the token it
\* sets as the cookie; the routes behind the login manager (GET and PUT
\* /users/me) take that token from the cookie or from the Authorization
\* header, resolving the same user, with the cookie preferred when both are
\* there; the pages (GET /dashboard) take it from the cookie only.
C24_TokenByCookieOrHeaderOnApi ==
    [][ /\ BodyTokenIsCookieToken
        /\ ManagerRoutesTakeEither
        /\ ServedBy("dashboard_page") =>
              \A cookie, header \in BearerTokens :
                 dashboard_page(cookie)
                 => LET current_user == manager(users, cookie, Instant(now)) IN
                    resp' = IF current_user = 0 THEN Redirect(302, "/login")
                            ELSE Page("dashboard.html", users[current_user].email)
      ]_vars

\* b@x, signed in through the API, has changed the email with the token of
\* the login response
C24_Witness ==
    /\ request # <<>> /\ request[1] = "update_user_me"
    /\ request[2] = create_access_token("b@x", Instant(ACCESS_TOKEN_EXPIRE), Instant(1))
    /\ users[2].email = "n@x"

----------------------------------------------------------------------------
(* Registration through the API, checked under AccountSpec *)

\* C25: POST /auth/register with a body of email, password and full_name
\* only (no username), for an email no user holds, succeeds: it adds exactly
\* one user row with that email, active and not an administrator, and
\* answers 200 with the user's data and no password hash.
C25_RegisterWithoutUsernameSucceeds ==
    [][ ServedBy("register") =>
          \A email \in AllEmails, is_superuser \in BOOLEAN :
             (~Held(email) /\ register(FALSE, email, "pw1", is_superuser))
             => /\ resp'.status = 200
                /\ Len(users') = Len(users) + 1
                /\ SubSeq(users', 1, Len(users)) = users
                /\ users'[Len(users')].email = email
                /\ users'[Len(users')].is_active
                /\ ~users'[Len(users')].is_superuser
      ]_vars

----------------------------------------------------------------------------
(* verify_csrf on its own: the function applied to any cookie value and   *)
(* any form value                                                         *)

\* "" is an absent or empty value; the others differ in a digit, in letter
\* case, in a trailing blank and in length
CsrfStrings == {"", "c1", "c2", "C1", "c1 ", "c"}

\* verify_csrf(request, form_token) with request.cookies holding
\* cookie_token: it raises the 403 HTTPException or returns
call_verify_csrf(cookie_token, form_token) ==
    /\ request' = <<"verify_csrf", cookie_token, form_token>>
    /\ resp' = IF verify_csrf(cookie_token, form_token) THEN NoResponse ELSE CsrfFailed
    /\ UNCHANGED <<users, reset_tokens, now, email_on, outbox, log, req, hits, pending, issued, browser>>

CsrfNext ==
    \E cookie_token, form_token \in CsrfStrings : call_verify_csrf(cookie_token, form_token)

CsrfSpec == Init /\ [][CsrfNext]_vars

\* C26: verify_csrf passes exactly when the CSRF cookie and the form value
\* are both there, both non-empty and equal; in every other case it raises
\* the 403 "CSRF verification failed".
C26_CsrfPassesIffPresentAndEqual ==
    [][ \A cookie_token, form_token \in CsrfStrings :
           call_verify_csrf(cookie_token, form_token)
           => IF cookie_token # "" /\ form_token # "" /\ cookie_token = form_token
              THEN resp' = NoResponse
              ELSE resp' = CsrfFailed /\ resp'.status = 403
      ]_vars

\* neither a cookie nor a form value: the two are equal, and the check fails
C26_Witness ==
    /\ request = <<"verify_csrf", "", "">>
    /\ resp = CsrfFailed

----------------------------------------------------------------------------
(* authenticate_user on its own, over the stores that signups, password   *)
(* resets and the is_active switch produce                                *)

Returned(user) ==
    [Response(0, <<"return", "None", "">>) EXCEPT
        !.body = IF user = 0 THEN <<"return", "None", "">>
                 ELSE <<"return", "User", users[user].email>>]

\* authenticate_user(db, email, password)
call_authenticate_user(email, password) ==
    /\ request' = <<"authenticate_user", email, password>>
    /\ resp' = Returned(authenticate_user(users, email, password))
    /\ UNCHANGED <<users, reset_tokens, now, email_on, outbox, log, req, hits, pending, issued, browser>>

AuthNext ==
    \/ \E email \in AllEmails, password \in Passwords : call_authenticate_user(email, password)
    \/ \E password \in Passwords : handle_signup("n@x", password, "c1", "c1", TRUE)
    \/ \E u \in 1..Len(users), active \in BOOLEAN : set_is_active(u, active)

AuthSpec == Init /\ [][AuthNext]_vars

\* C27: authenticate_user(email, password) returns the user with that email
\* when there is one, the password verifies against its hash and it is
\* active; in every other case it returns None; it changes nothing in the
\* store.
C27_AuthenticateIffKnownVerifiedActive ==
    [][ ServedBy("authenticate_user") =>
          \A email \in AllEmails, password \in Passwords :
             call_authenticate_user(email, password)
             => /\ users' = users /\ reset_tokens' = reset_tokens
                /\ IF \E u \in 1..Len(users) :
                         /\ users[u].email = email
                         /\ verify_password(password, users[u].hashed_password)
                         /\ users[u].is_active
                   THEN /\ resp'.body = <<"return", "User", email>>
                        /\ users[authenticate_user(users, email, password)].email = email
                   ELSE /\ resp'.body = <<"return", "None", "">>
                        /\ authenticate_user(users, email, password) = 0
      ]_vars

\* n@x has signed up with pw2 and was deactivated: the right password gets
\* None
C27_Witness ==
    /\ request = <<"authenticate_user", "n@x", "pw2">>
    /\ Len(users) = 3
    /\ verify_password("pw2", users[3].hashed_password)
    /\ ~users[3].is_active
    /\ resp.body = <<"return", "None", "">>

----------------------------------------------------------------------------
(* Several reset tokens in the store at once: users ask for a reset more  *)
(* than once before redeeming                                             *)

MaxRows == 2                \* token rows in the store

TokensNext ==
    \/ Tick
    \/ /\ Len(reset_tokens) < MaxRows
       /\ \E email \in Emails : handle_forgot_password(email, "c1", "c1")
    \/ \E task \in outbox : send_password_reset(task)
    \/ \E r \in ReqIds, token \in IssuedSecrets : reset_lookup(r, token, "pw2", "c1", "c1")
    \/ \E r \in ReqIds : reset_commit(r, TRUE)

TokensSpec == Init /\ [][TokensNext]_vars

\* the secrets a step has given out: to the notifier's queue, or, with no
\* email client, to the log
HandedOut ==
    {task.token : task \in outbox' \ outbox}
       \cup {entry.data : entry \in {e \in log' \ log : e.event = "Password reset link"}}

\* C28: a reset request for an existing user adds exactly one token row; the
\* row is unused, expires one hour (RESET_TOKEN_EXPIRE) after its creation
\* and holds the SHA-256 of the one secret the request gives out, so that
\* this secret, presented at any time before the expiry, is matched to that
\* row, and no other row carries its hash.
C28_RowHoldsHashOfHandedSecret ==
    [][ ServedBy("handle_forgot_password") =>
          \A email \in Emails :
             (UserByEmail(users, email) # 0 /\ handle_forgot_password(email, "c1", "c1"))
             => LET n == Len(reset_tokens')
                    row == reset_tokens'[n] IN
                /\ n = Len(reset_tokens) + 1
                /\ SubSeq(reset_tokens', 1, n - 1) = reset_tokens
                /\ row.user_id = UserByEmail(users, email)
                /\ row.used_at = NULL
                /\ row.expires_at = now + RESET_TOKEN_EXPIRE
                /\ Cardinality(HandedOut) = 1
                /\ \A secret \in HandedOut :
                      /\ row.token_hash = <<"sha256", secret>>
                      /\ RowOf(reset_tokens', secret) = {n}
                      /\ \A t \in now..(row.expires_at - 1) :
                            FindResetToken(reset_tokens', secret, t) = n
      ]_vars

\* a second request of a@x: two rows for the one user, the second holding
\* the hash of the secret now waiting for the notifier
C28_Witness ==
    /\ request = <<"handle_forgot_password">>
    /\ Len(reset_tokens) = 2
    /\ reset_tokens[1].user_id = 1 /\ reset_tokens[2].user_id = 1
    /\ [email |-> "a@x", token |-> SecretOrder[2]] \in outbox
    /\ FindResetToken(reset_tokens, SecretOrder[2], now) = 2

\* C30: a reset request for an existing user adds a row and leaves the
\* earlier rows as they were; a successful redemption sets used_at on the
\* redeemed row and changes no other row, so every other unused, unexpired
\* token of the same user is still found by the redemption query.
C30_OtherTokensUntouched ==
    [][ /\ ServedBy("handle_forgot_password") =>
              \A email \in Emails :
                 (UserByEmail(users, email) # 0 /\ handle_forgot_password(email, "c1", "c1"))
                 => /\ Len(reset_tokens') = Len(reset_tokens) + 1
                    /\ \A i \in 1..Len(reset_tokens) : reset_tokens'[i] = reset_tokens[i]
        /\ \A r \in ReqIds :
              (req[r].pc = "found" /\ reset_commit(r, TRUE) /\ Redirected(req'[r].resp))
              => LET row == req[r].row IN
                 /\ Len(reset_tokens') = Len(reset_tokens)
                 /\ reset_tokens'[row] = [reset_tokens[row] EXCEPT !.used_at = Some(now)]
                 /\ \A i \in 1..Len(reset_tokens) :
                       i # row
                       => /\ reset_tokens'[i] = reset_tokens[i]
                          /\ ( /\ reset_tokens[i].user_id = reset_tokens[row].user_id
                               /\ reset_tokens[i].used_at = NULL
                               /\ reset_tokens[i].expires_at > now )
                             => FindResetToken(reset_tokens', SecretOrder[i], now) = i
      ]_vars

\* two tokens of a@x, the second redeemed at a later time than the first
C30_Witness ==
    /\ Len(reset_tokens) = 2
    /\ reset_tokens[1].user_id = 1 /\ reset_tokens[2].user_id = 1
    /\ reset_tokens[1].used_at = Some(0)
    /\ reset_tokens[2].used_at = Some(1)
    /\ \E r \in ReqIds : Succeeded(r) /\ req[r].row = 2

----------------------------------------------------------------------------
(* Whose token it is.  A token names its user by the email in `sub`;      *)
(* load_user looks the email up at every request.  The history variable   *)
(* issued keeps, for every token the API login returns, the user record   *)
(* that logged in.                                                        *)

\* POST /auth/token, noted in the history
login_issuing(username, password) ==
    /\ resp' = TokenResponse(users, username, password, now)
    /\ request' = <<"login", username, password>>
    /\ issued' = IF authenticate_user(users, username, password) = 0 THEN issued
                 ELSE issued \cup {[token |-> resp'.access_token,
                                    user |-> authenticate_user(users, username, password)]}
    /\ UNCHANGED <<users, reset_tokens, now, email_on, outbox, log, req, hits, pending, browser>>

IssuedTokens == {i.token : i \in issued}
\* the logins tried: b@x with the password of the account that has the
\* email at first, and with the password of an account that signs up later
IdentityLogins == {<<"b@x", "pw2">>, <<"b@x", "pw1">>}
\* the emails that change hands
IdentityEmails == {"b@x", "n@x"}

IdentityNext ==
    \/ Tick
    \/ \E l \in IdentityLogins : login_issuing(l[1], l[2])
    \/ \E email \in IdentityEmails : handle_signup(email, "pw1", "c1", "c1", TRUE)
    \/ \E token \in IssuedTokens, email \in IdentityEmails : update_user_me(token, email)
    \/ \E token \in IssuedTokens : read_users_me(token)

IdentitySpec == Init /\ [][IdentityNext]_vars

\* C29: a token issued at the login of a user is never resolved to another
\* user record, whatever registrations, logins and profile email changes
\* have happened since.
C29_TokenKeepsItsUser ==
    \A i \in issued :
       LET user == manager(users, i.token, Instant(now)) IN
       user # 0 => user = i.user

----------------------------------------------------------------------------
(* Sessions across a password reset: users sign in, reset their password  *)
(* and go on using the tokens they hold                                   *)

AfterResetNext ==
    \/ Tick
    \/ /\ Len(reset_tokens) < MaxTokens
       /\ \E email \in Emails : handle_forgot_password(email, "c1", "c1")
    \/ \E task \in outbox : send_password_reset(task)
    \/ \E token \in IssuedSecrets, pw \in Passwords : reset_lookup("r1", token, pw, "c1", "c1")
    \/ reset_commit("r1", TRUE)
    \/ \E email \in Emails, password \in Passwords, remember_me \in {"", "true"} :
          handle_login(email, password, remember_me, "c1", "c1", TRUE)
    \/ \E token \in LogoutTokens : dashboard_page(token)

AfterResetSpec == Init /\ [][AfterResetNext]_vars

\* C31: a successful redemption changes the password hash of the token's
\* user and the used_at of the redeemed row and nothing else in the store;
\* every token that resolved to a user before the step resolves to the same
\* user after it.
C31_ResetKeepsSessions ==
    [][ \A r \in ReqIds :
           (req[r].pc = "found" /\ reset_commit(r, TRUE) /\ Redirected(req'[r].resp))
           => LET row == req[r].row
                  u == reset_tokens[row].user_id IN
              /\ users' = [users EXCEPT ![u].hashed_password = users'[u].hashed_password]
              /\ users'[u].hashed_password # users[u].hashed_password
              /\ reset_tokens' = [reset_tokens EXCEPT ![row].used_at = Some(now)]
              /\ \A token \in LogoutTokens :
                    manager(users', token, Instant(now)) = manager(users, token, Instant(now))
      ]_vars

\* b@x has reset the password; the 30-day token from before the reset opens
\* the dashboard afterwards
C31_Witness ==
    /\ request = <<"dashboard_page", create_access_token("b@x", Instant(REMEMBER_ME_EXPIRE), 0)>>
    /\ resp = Page("dashboard.html", "b@x")
    /\ Authenticates(create_access_token("b@x", Instant(REMEMBER_ME_EXPIRE), 0))
    /\ now > 0
    /\ Succeeded("r1")
    /\ reset_tokens[req["r1"].row].user_id = 2
    /\ reset_tokens[req["r1"].row].used_at = Some(0)
    /\ ~verify_password("pw2", users[2].hashed_password)

----------------------------------------------------------------------------
(* The form pages GET /login, GET /forgot and GET /reset, and the browser  *)
(* that keeps the csrftoken cookie they set                                *)

MaxPages == 3
\* max_age=3600 of the csrftoken cookie, in units of 30 minutes
CSRF_MAX_AGE == 2

\* secrets.token_urlsafe(16): the values in the order they are drawn; no
\* value is drawn twice
CsrfOrder == <<"c1", "c2", "c3", "c4", "c5">>
generate_csrf_token_Constant(forms) == CsrfOrder[1]
generate_csrf_token(forms) == CsrfOrder[Cardinality(forms) + 1]

\* the page carries the value in its hidden csrf field
FormPage(template, csrf_token) == Response(200, <<template, csrf_token>>)
ResetLinkInvalid == Response(400, <<"error.html", "Invalid or Expired Token">>)

\* set_csrf_cookie as the browser applies it: the value replaces the stored
\* one; the page's form holds the same value
set_csrf_cookie(b, csrf_token, t) ==
    [csrftoken |-> csrf_token, set_at |-> t, forms |-> b.forms \cup {csrf_token}]

\* request.cookies.get("csrftoken") of a request of this browser: a cookie
\* past its max_age is not sent
SentCookie(b, t) ==
    IF b.csrftoken # "" /\ t < b.set_at + CSRF_MAX_AGE THEN b.csrftoken ELSE ""

\* GET /login and GET /forgot: a signed-in client is sent to the dashboard
form_page(name, template, token) ==
    /\ LET current_user == get_current_user_optional(users, token, Instant(now)) IN
       IF current_user # 0
       THEN /\ resp' = Redirect(302, "/dashboard")
            /\ browser' = browser
       ELSE LET csrf_token == generate_csrf_token(browser.forms) IN
            /\ resp' = FormPage(template, csrf_token)
            /\ browser' = set_csrf_cookie(browser, csrf_token, now)
    /\ request' = <<name, token>>
    /\ UNCHANGED <<users, reset_tokens, now, email_on, outbox, log, req, hits, pending, issued>>

login_page(token) == form_page("login_page", "auth.html", token)
forgot_password_page(token) == form_page("forgot_password_page", "forgot.html", token)

reset_password_page(token) ==
    /\ IF FindResetToken(reset_tokens, token, now) = 0
       THEN /\ resp' = ResetLinkInvalid
            /\ browser' = browser
       ELSE LET csrf_token == generate_csrf_token(browser.forms) IN
            /\ resp' = FormPage("reset.html", csrf_token)
            /\ browser' = set_csrf_cookie(browser, csrf_token, now)
    /\ request' = <<"reset_password_page", token>>
    /\ UNCHANGED <<users, reset_tokens, now, email_on, outbox, log, req, hits, pending, issued>>

\* the session cookie the browser may hold: none, or one of b@x
PageTokens == {NoToken, create_access_token("b@x", Instant(REMEMBER_ME_EXPIRE), 0)}
\* the csrf field of a submission: absent, or the value of a form served
FormValues(b) == b.forms \cup {""}

PagesNext ==
    \/ Tick
    \/ /\ Cardinality(browser.forms) < MaxPages
       /\ \E token \in PageTokens : login_page(token) \/ forgot_password_page(token)
    \/ /\ Cardinality(browser.forms) < MaxPages
       /\ \E token \in IssuedSecrets \cup GarbageTokens : reset_password_page(token)
    \/ \E form_token \in FormValues(browser) :
          handle_login("b@x", "pw2", "", SentCookie(browser, now), form_token, TRUE)
    \/ /\ reset_tokens = <<>>
       /\ \E form_token \in FormValues(browser) :
             handle_forgot_password("b@x", SentCookie(browser, now), form_token)
    \/ \E task \in outbox : send_password_reset(task)
    \/ \E form_token \in FormValues(browser), token \in IssuedSecrets :
          reset_lookup("r1", token, "pw1", SentCookie(browser, now), form_token)
    \/ reset_commit("r1", TRUE)

PagesSpec == Init /\ [][PagesNext]_vars

\* the render put its value, one no earlier form holds, into the cookie
MintedAndStored ==
    /\ resp'.body[2] \notin browser.forms \cup {""}
    /\ browser'.csrftoken = resp'.body[2]
    /\ browser'.set_at = now
    /\ SentCookie(browser', now) = resp'.body[2]
    /\ browser'.forms = browser.forms \cup {resp'.body[2]}
\* the csrf value of a form served before the one the cookie now holds, or
\* any value once the cookie is gone
Stale(form_token) == form_token # "" /\ form_token # SentCookie(browser, now)
Matching(form_token) == form_token # "" /\ form_token = SentCookie(browser, now)

\* C32: a form page that is rendered puts a value no earlier form holds into
\* its form and into the csrftoken cookie; a submission whose csrf field is
\* not the value the cookie holds now is answered 403; a submission whose
\* csrf field is the value of the unexpired cookie passes the CSRF check and
\* leaves the cookie as it is, so that it can be sent again.
C32_CsrfValueFollowsLastRender ==
    [][ /\ \A token \in PageTokens :
             (login_page(token) \/ forgot_password_page(token)) /\ resp'.status = 200
             => MintedAndStored
        /\ \A token \in IssuedSecrets \cup GarbageTokens :
             reset_password_page(token) /\ resp'.status = 200 => MintedAndStored
        /\ \A form_token \in FormValues(browser) :
             /\ handle_login("b@x", "pw2", "", SentCookie(browser, now), form_token, TRUE)
                => /\ Stale(form_token) => resp' = CsrfFailed
                   /\ Matching(form_token) => resp'.status # 403 /\ browser' = browser
             /\ handle_forgot_password("b@x", SentCookie(browser, now), form_token)
                => /\ Stale(form_token) => resp' = CsrfFailed
                   /\ Matching(form_token) => resp'.status # 403 /\ browser' = browser
             /\ \A token \in IssuedSecrets :
                  reset_lookup("r1", token, "pw1", SentCookie(browser, now), form_token)
                  => /\ Stale(form_token) => req'["r1"].resp = CsrfFailed
                     /\ Matching(form_token) => req'["r1"].resp.status # 403 /\ browser' = browser
      ]_vars

\* two pages have been rendered, the cookie of the second is still held,
\* and a login form was answered 403: it carried the value of the first
C32_Witness ==
    /\ Cardinality(browser.forms) >= 2
    /\ SentCookie(browser, now) # ""
    /\ request # <<>>
    /\ IF request = <<>> THEN FALSE ELSE request[1] = "handle_login"
    /\ resp = CsrfFailed

----------------------------------------------------------------------------
(* The form endpoints behind the limiter: POST /auth/login, /auth/signup   *)
(* and /auth/forgot of one client.  A complete form reaches the decorator, *)
(* which counts it and lets it through to the handler or answers 429; the  *)
(* handler starts with verify_csrf.                                        *)

MaxOver == 1                \* requests followed past the limit of a window

limited_handle_login(cookie_token, form_token) ==
    /\ Admitted("/auth/login")
    /\ handle_login(request[4], request[5], "", cookie_token, form_token, TRUE)

limited_handle_forgot_password(cookie_token, form_token) ==
    /\ Admitted("/auth/forgot")
    /\ handle_forgot_password(request[4], cookie_token, form_token)

OrderKey == "10.0.0.1"
\* the forms sent to an endpoint: a reset is asked for b@x only
OrderForms(endpoint) ==
    IF endpoint = "/auth/forgot" THEN {<<"b@x", "pw2">>}
    ELSE {<<"b@x", "pw2">>, <<"n@x", "pw1">>}
\* the csrftoken cookie and csrf field of a submission: equal or not
OrderPairs == {<<"c1", "c1">>, <<"c1", "c2">>}

\* a request is handled within its minute, and the client keeps to one
\* endpoint per minute
OrderNext ==
    \/ /\ \A endpoint \in FormEndpoints : ~Admitted(endpoint)
       /\ Tick
    \/ \E endpoint \in FormEndpoints :
          /\ \/ hits[endpoint, OrderKey].at # now
             \/ hits[endpoint, OrderKey].count < Limit(endpoint) + MaxOver
          /\ \A e \in FormEndpoints \ {endpoint} : hits[e, OrderKey].count = 0
          /\ endpoint = "/auth/forgot" => Len(reset_tokens) < MaxTokens
          /\ \E form \in OrderForms(endpoint) :
                check_request_limit(endpoint, OrderKey, form[1], form[2])
    \/ \E cf \in OrderPairs : limited_handle_login(cf[1], cf[2])
    \/ \E cf \in OrderPairs : limited_signup(cf[1], cf[2], TRUE)
    \/ \E cf \in OrderPairs : limited_handle_forgot_password(cf[1], cf[2])
    \/ \E task \in outbox : send_password_reset(task)

OrderSpec == Init /\ [][OrderNext]_vars

\* the request the decorator let through was counted in the running window
\* and the handler leaves the counter alone
Counted(endpoint) ==
    /\ hits[endpoint, request[3]].count >= 1
    /\ hits[endpoint, request[3]].at = now
    /\ hits' = hits

\* C33: a complete form whose client has used up the endpoint's limit is
\* answered 429 by the decorator and not passed to the handler, whatever
\* its csrf pair; a form let through with a differing csrf pair is answered
\* 403 with the store unchanged, also for data the handler would act on,
\* and it has been counted against the client's budget.
C33_LimitThenCsrfThenLogic ==
    [][ /\ \A endpoint \in FormEndpoints : \A form \in OrderForms(endpoint) :
             (LimitReached(endpoint, OrderKey)
              /\ check_request_limit(endpoint, OrderKey, form[1], form[2]))
             => /\ resp' = RateLimited
                /\ resp' # CsrfFailed
                /\ ~Admitted(endpoint)'
                /\ StoreUnchanged
        /\ limited_handle_login("c1", "c2")
             => resp' = CsrfFailed /\ StoreUnchanged /\ Counted("/auth/login")
        /\ limited_signup("c1", "c2", TRUE)
             => resp' = CsrfFailed /\ StoreUnchanged /\ Counted("/auth/signup")
        /\ limited_handle_forgot_password("c1", "c2")
             => resp' = CsrfFailed /\ StoreUnchanged /\ Counted("/auth/forgot")
      ]_vars

\* three reset forms for b@x with a differing csrf pair were answered 403
\* and left no token row; the fourth of the minute is answered 429
C33_Witness ==
    /\ request = <<"rate_limited", "/auth/forgot", OrderKey, "b@x", "pw2">>
    /\ resp = RateLimited
    /\ reset_tokens = <<>>
    /\ hits["/auth/forgot", OrderKey] = [count |-> FORGOT_LIMIT + 1, at |-> now]

----------------------------------------------------------------------------
(* The key of the limiter: get_client_ip of the request's headers and peer *)

\* a header is the sequence of its comma-separated entries: <<>> for a
\* header the request does not carry, <<"">> for one with an empty value
NoHeader == <<>>
\* `if x_forwarded_for:` -- the header is there and is not the empty string
Truthy(header) == header # NoHeader /\ header # <<"">>
\* str.strip of the entries that occur
strip(entry) ==
    IF entry = " 10.0.0.2" THEN "10.0.0.2" ELSE entry

get_client_ip_PeerOnly(x_forwarded_for, x_real_ip, client) ==
    IF client # NoHeader THEN client[1] ELSE "unknown"

get_client_ip(x_forwarded_for, x_real_ip, client) ==
    IF Truthy(x_forwarded_for) THEN strip(x_forwarded_for[1])
    ELSE IF Truthy(x_real_ip) THEN x_real_ip[1]
    ELSE IF client # NoHeader THEN client[1] ELSE "unknown"

\* the requests followed: all of them from the peer 10.0.0.1
ForwardedValues == {NoHeader, <<"">>, <<"10.0.0.2">>, <<" 10.0.0.2", "10.0.0.1">>,
                    <<"10.0.0.1", "10.0.0.2">>}
RealIpValues == {NoHeader, <<"">>, <<"10.0.0.1">>, <<"10.0.0.2">>}
Peers == {<<"10.0.0.1">>}
KeyEndpoints == {"/auth/token", "/auth/login"}

KeyTotalHits == SumHits(KeyEndpoints \X AllKeys)

\* the requests of one minute
KeyNext ==
    \/ /\ KeyTotalHits <= MaxHits
       /\ \E endpoint \in KeyEndpoints, x_forwarded_for \in ForwardedValues,
             x_real_ip \in RealIpValues, client \in Peers :
             check_request_limit(endpoint, get_client_ip(x_forwarded_for, x_real_ip, client),
                                 "b@x", "pw2")
    \/ limited_login
    \/ limited_handle_login("c1", "c1")

KeySpec == Init /\ [][KeyNext]_vars

\* the limiter counts one arriving request of the given headers and peer
KeyStep(endpoint, x_forwarded_for, x_real_ip, client) ==
    /\ hits' # hits
    /\ request'[2] = endpoint
    /\ request'[3] = get_client_ip(x_forwarded_for, x_real_ip, client)
    /\ check_request_limit(endpoint, get_client_ip(x_forwarded_for, x_real_ip, client),
                           "b@x", "pw2")
\* the request was counted under the key, against the endpoint's counter of
\* that key alone, and that counter alone decided between handler and 429
CountedUnder(endpoint, key) ==
    /\ request'[3] = key
    /\ hits'[endpoint, request'[3]] = incr(hits[endpoint, request'[3]], now)
    /\ \A e \in AllEndpoints, k \in AllKeys :
          <<e, k>> # <<endpoint, request'[3]>> => hits'[e, k] = hits[e, k]
    /\ request'[1] = "rate_limited" <=> hits[endpoint, request'[3]].count >= Limit(endpoint)

\* the key by the headers the request carries, whatever their value
KeyOfPresent(x_forwarded_for, x_real_ip, client) ==
    CASE x_forwarded_for # NoHeader -> strip(x_forwarded_for[1])
      [] x_forwarded_for = NoHeader /\ x_real_ip # NoHeader -> x_real_ip[1]
      [] OTHER -> client[1]

\* the key by the headers that carry a non-empty value
KeyOfNonEmpty(x_forwarded_for, x_real_ip, client) ==
    CASE x_forwarded_for \notin {NoHeader, <<"">>} -> strip(x_forwarded_for[1])
      [] x_forwarded_for \in {NoHeader, <<"">>} /\ x_real_ip \notin {NoHeader, <<"">>}
           -> x_real_ip[1]
      [] OTHER -> IF client = NoHeader THEN "unknown" ELSE client[1]

\* C34 as stated: a request is counted under the first entry of its
\* X-Forwarded-For header if it carries one, else under its X-Real-IP header
\* if it carries one, else under the peer address, against the counter of
\* that key and endpoint alone.
C34_KeyByHeaderPresence ==
    [][ ServedBy("admitted") \/ ServedBy("rate_limited") =>
        \A endpoint \in KeyEndpoints, x_forwarded_for \in ForwardedValues,
           x_real_ip \in RealIpValues, client \in Peers :
           KeyStep(endpoint, x_forwarded_for, x_real_ip, client)
           => CountedUnder(endpoint, KeyOfPresent(x_forwarded_for, x_real_ip, client))
      ]_vars

\* C34 (amended): a request is counted under the first entry of its
\* X-Forwarded-For header if that header has a non-empty value, else under
\* its X-Real-IP header if that has a non-empty value, else under the peer
\* address, against the counter of that key and endpoint alone; a header
\* with an empty value counts as absent.
C34_KeyByNonEmptyHeader ==
    [][ ServedBy("admitted") \/ ServedBy("rate_limited") =>
        \A endpoint \in KeyEndpoints, x_forwarded_for \in ForwardedValues,
           x_real_ip \in RealIpValues, client \in Peers :
           KeyStep(endpoint, x_forwarded_for, x_real_ip, client)
           => CountedUnder(endpoint, KeyOfNonEmpty(x_forwarded_for, x_real_ip, client))
      ]_vars

\* the peer 10.0.0.1 has used up its logins of the minute under its own
\* address, and a further login carrying a header is let through under the
\* key 10.0.0.2
C34_Witness ==
    /\ request = <<"admitted", "/auth/token", "10.0.0.2", "b@x", "pw2">>
    /\ hits["/auth/token", "10.0.0.1"] = [count |-> TOKEN_LIMIT + 1, at |-> now]
    /\ hits["/auth/token", "10.0.0.2"].count \in 1..TOKEN_LIMIT
    /\ hits["/auth/login", "10.0.0.1"].count = 0

----------------------------------------------------------------------------
(* Password reset of an account that is or becomes inactive: a@x starts    *)
(* active or inactive, and the flag of either account may be switched      *)

InactiveNext ==
    \/ Tick
    \/ /\ Len(reset_tokens) < MaxTokens
       /\ \E email \in Emails : handle_forgot_password(email, "c1", "c1")
    \/ \E task \in outbox : send_password_reset(task)
    \/ \E token \in IssuedSecrets : reset_lookup("r1", token, "pw2", "c1", "c1")
    \/ reset_commit("r1", TRUE)
    \/ \E email \in Emails, password \in Passwords :
          handle_login(email, password, "", "c1", "c1", TRUE)
    \/ \E u \in 1..2, active \in BOOLEAN : set_is_active(u, active)

InactiveSpec == Init /\ [][InactiveNext]_vars

Flags(us) == [u \in 1..Len(us) |-> us[u].is_active]

\* C35: a reset request for a registered email adds a token row for its
\* user whether the user is active or not and leaves the flags alone; a
\* redemption that has found its row completes whether the user is active
\* or not and leaves the flags alone; a login of an inactive user is
\* refused also with the password that verifies.
C35_ResetIgnoresActiveFlag ==
    [][ /\ \A email \in Emails :
             (reset_tokens' # reset_tokens /\ handle_forgot_password(email, "c1", "c1"))
             => /\ Len(reset_tokens') = Len(reset_tokens) + 1
                /\ reset_tokens'[Len(reset_tokens')].user_id = UserByEmail(users, email)
                /\ resp' = ForgotSuccess
                /\ Flags(users') = Flags(users)
        /\ \A email \in Emails :
             (users[UserByEmail(users, email)].is_active = FALSE
              /\ handle_forgot_password(email, "c1", "c1"))
             => Len(reset_tokens') = Len(reset_tokens) + 1
        /\ (req["r1"].pc = "found" /\ reset_commit("r1", TRUE))
             => /\ Redirected(req'["r1"].resp)
                /\ Flags(users') = Flags(users)
                /\ verify_password("pw2",
                      users'[reset_tokens[req["r1"].row].user_id].hashed_password)
        /\ \A email \in Emails, password \in Passwords :
             (users[UserByEmail(users, email)].is_active = FALSE
              /\ handle_login(email, password, "", "c1", "c1", TRUE))
             => resp' = LoginFailed /\ resp'.set_cookie = NoCookie
      ]_vars

\* a@x, inactive, has redeemed a reset token for the password
\* pw2; the login with pw2 is refused
C35_Witness ==
    /\ ~users[1].is_active
    /\ Succeeded("r1")
    /\ reset_tokens[req["r1"].row].user_id = 1
    /\ reset_tokens[req["r1"].row].used_at # NULL
    /\ verify_password("pw2", users[1].hashed_password)
    /\ request = <<"handle_login", "a@x", "pw2">>
    /\ resp = LoginFailed

====
